---- MODULE Spec2Model ----
(***************************************************************************)
(* Random Media Source (OBS plugin), src/src/plugin-main.cpp.              *)
(*                                                                         *)
(* The plugin instance (random_media_data) keeps a catalog of media files  *)
(* (file_list) and a mutex-guarded list of the scene items it spawned      *)
(* (active_items).  do_spawn() checks the catalog, the active cap and the  *)
(* current scene, then runs spawn_one() max(1, spawn_count) times.  The    *)
(* host delivers media_ended to on_media_ended(), which unregisters the    *)
(* item and removes it from the scene.                                     *)
(*                                                                         *)
(* Host threads calling into the plugin are the members of Threads; each   *)
(* has a program counter.  Completion callbacks run on the host's signal   *)
(* thread; each hide_ctx has a state of its own.  A scene item handle and  *)
(* the media source it shows are both identified by the uid of the unit    *)
(* that created them (the host hands out distinct handles).                *)
(***************************************************************************)
EXTENDS Integers, Sequences, FiniteSets, TLC

\* ---------------------------------------------------------------------
\* Bounds of the model
\* ---------------------------------------------------------------------
\* largest max_active a settings object carries
MaxActiveCfg == 2
\* largest spawn_count a settings object carries
MaxSpawnCfg == 2
\* number of unit attempts (values of s_uid) explored
MaxUid == 4

\* ---------------------------------------------------------------------
\* Plain helpers
\* ---------------------------------------------------------------------
Max(a, b) == IF a >= b THEN a ELSE b

Range(s) == {s[k] : k \in 1..Len(s)}

NoDup(s) == \A a, b \in 1..Len(s) : s[a] = s[b] => a = b

Uids == 1..MaxUid

\* the one instance pointer that is not an instance
NULL == "null"

Instances == {"A", "B"}

Threads == {"t1", "t2"}

\* ---------------------------------------------------------------------
\* File names and the media extension test
\* ---------------------------------------------------------------------
\* MEDIA_EXTS
MEDIA_EXTS ==
  { <<".", "m", "p", "4">>, <<".", "m", "k", "v">>, <<".", "a", "v", "i">>,
    <<".", "m", "o", "v">>, <<".", "w", "e", "b", "m">>, <<".", "f", "l", "v">>,
    <<".", "j", "p", "g">>, <<".", "j", "p", "e", "g">>, <<".", "p", "n", "g">>,
    <<".", "g", "i", "f">> }

\* (variant: characters are compared as they are)
ToLowerNone(c) == c

\* ::tolower on one character
ToLower(c) ==
  CASE c = "A" -> "a" [] c = "B" -> "b" [] c = "C" -> "c" [] c = "D" -> "d"
    [] c = "E" -> "e" [] c = "F" -> "f" [] c = "G" -> "g" [] c = "H" -> "h"
    [] c = "I" -> "i" [] c = "J" -> "j" [] c = "K" -> "k" [] c = "L" -> "l"
    [] c = "M" -> "m" [] c = "N" -> "n" [] c = "O" -> "o" [] c = "P" -> "p"
    [] c = "Q" -> "q" [] c = "R" -> "r" [] c = "S" -> "s" [] c = "T" -> "t"
    [] c = "U" -> "u" [] c = "V" -> "v" [] c = "W" -> "w" [] c = "X" -> "x"
    [] c = "Y" -> "y" [] c = "Z" -> "z" [] OTHER -> c

\* std::string::find_last_of('.') : 0 stands for npos, else the 1-based index
FindLastDot(path) ==
  LET dots == {k \in 1..Len(path) : path[k] = "."}
  IN  IF dots = {} THEN 0 ELSE CHOOSE k \in dots : \A j \in dots : j <= k

\* has_media_ext(path)
has_media_ext(path) ==
  LET dot == FindLastDot(path)
  IN  IF dot = 0 THEN FALSE
      ELSE LET ext == SubSeq(path, dot, Len(path))
               low == [k \in 1..Len(ext) |-> ToLower(ext[k])]
           IN  low \in MEDIA_EXTS

\* The directories of the host file system: what os_opendir / os_readdir
\* return for a folder.  "ok" is FALSE when os_opendir fails.
EmptyFolder == <<>>

FolderA == <<"d", "A">>

\* a folder whose own name ends in a media extension
FolderB == <<"d", ".", "m", "p", "4">>

FolderX == <<"d", "X">>

Folders == {EmptyFolder, FolderA, FolderB, FolderX}

FsInit ==
  [f \in Folders |->
     CASE f = FolderA ->
            [ok |-> TRUE,
             ents |-> << [d_name |-> <<"a", ".", "m", "p", "4">>, directory |-> FALSE],
                         [d_name |-> <<"b", ".", "t", "x", "t">>, directory |-> FALSE],
                         [d_name |-> <<"c", ".", "p", "n", "g">>, directory |-> FALSE] >>]
       [] f = FolderB ->
            [ok |-> TRUE,
             ents |-> << [d_name |-> <<"A", ".", "M", "P", "4">>, directory |-> FALSE],
                         [d_name |-> <<"s", ".", "g", "i", "f">>, directory |-> TRUE],
                         [d_name |-> <<"n", "o", "e", "x", "t">>, directory |-> FALSE] >>]
       [] OTHER -> [ok |-> FALSE, ents |-> <<>>]]

\* the same file system after c.png was deleted from FolderA
FsAlt ==
  [FsInit EXCEPT ![FolderA].ents = SubSeq(@, 1, 2)]

\* the while loop of update_file_list over the entries read so far
RECURSIVE ScanEntries(_, _)

ScanEntries(path, ents) ==
  IF ents = <<>> THEN <<>>
  ELSE LET ent  == ents[Len(ents)]
           rest == ScanEntries(path, SubSeq(ents, 1, Len(ents) - 1))
           f    == path \o <<"/">> \o ent.d_name
       IN  IF ent.directory THEN rest
           ELSE IF has_media_ext(f) THEN Append(rest, f) ELSE rest

\* (variant: the entries of the last refresh are kept)
ClearKeep(fl) == fl

\* data->file_list.clear()
Clear(fl) == <<>>

\* update_file_list(data) after the clear: what is pushed to data->file_list,
\* given what os_opendir / os_readdir return for the folder
update_file_list(dir, path) ==
  IF path = <<>> THEN <<>>
  ELSE IF ~dir.ok THEN <<>> ELSE ScanEntries(path, dir.ents)


\* ---------------------------------------------------------------------
\* State
\* ---------------------------------------------------------------------
VARIABLES
  \* plugin globals
  g_data,              \* static random_media_data *g_data
  s_uid,               \* static std::atomic<int> s_uid
  alive,               \* the random_media_data objects that exist
  post_loaded,         \* obs_module_post_load has run
  g_vendor,            \* static obs_websocket_vendor g_vendor
  requests,            \* vendor requests registered with obs-websocket
  \* fields of random_media_data, one value per instance
  folder, hide_on_end, do_random_transform, spawn_count, max_active,
  xform,               \* min_scale .. max_y, preserve_aspect, disable_rot
  file_list, active_mutex, active_items,
  \* host file system: the entries os_readdir yields per folder
  fs,
  \* hide_ctx objects, one per unit that attached a subscription
  ctx,
  \* host: scene, media sources, scene items
  scene_items,         \* items currently in the scene
  media_refs,          \* references the plugin holds on each media source
  remove_calls,        \* obs_sceneitem_remove calls per item
  scene_refs,          \* references the plugin holds on the scene source
  transformed,         \* items that were given a random transform
  item_xf,             \* position, scale and rotation of each scene item
  canvas,              \* what obs_get_video_info reports as the base size
  ub,                  \* undefined behaviour executed so far (tags)
  \* host threads inside the plugin
  th,                  \* program counter and locals per thread
  call                 \* what the handler a thread runs has done so far

cfgVars == <<folder, hide_on_end, do_random_transform, spawn_count, max_active, xform>>

hostVars ==
  <<scene_items, media_refs, remove_calls, scene_refs, transformed, item_xf, canvas, ub>>

globVars == <<g_data, s_uid, alive, post_loaded, g_vendor, requests>>

vars == <<globVars, cfgVars, fs, file_list, active_mutex, active_items, ctx, hostVars, th, call>>

\* ---------------------------------------------------------------------
\* Settings objects the host can hand to source_create / source_update
\* ---------------------------------------------------------------------
Settings ==
  [folder : Folders, hide_on_end : BOOLEAN, random_transform : BOOLEAN,
   spawn_count : (-1)..MaxSpawnCfg, max_active : (-1)..MaxActiveCfg]

\* ---------------------------------------------------------------------
\* The obs-websocket vendor
\* ---------------------------------------------------------------------
\* what obs_websocket_register_vendor returns when obs-websocket is loaded
Vendor == "vendor"

\* the requests obs_module_post_load registers
AllRequests == {"spawn", "reload_files"}

\* (variant: g_data is never found null)
NotInitializedNever(g) == FALSE

\* if (!g_data) in vendor_spawn_cb and vendor_reload_cb
NotInitialized(g) == g = NULL

\* ---------------------------------------------------------------------
\* apply_random_transform.  Pixels, degrees and percent are integers; a
\* scale is kept in percent (min_scale / 100.0f is 1 for 100).
\* ---------------------------------------------------------------------
\* member initialisers of the transform fields of random_media_data
DefaultXform ==
  [min_scale |-> 50, max_scale |-> 150, preserve_aspect |-> TRUE,
   min_rot |-> -180, max_rot |-> 180, disable_rot |-> FALSE,
   min_x |-> 0, min_y |-> 0, max_x |-> 0, max_y |-> 0]

\* the transform fields source_update reads from a settings object
XformOf(s) == IF "xform" \in DOMAIN s THEN s.xform ELSE DefaultXform

\* base_width x base_height of the canvas
DefaultCanvas == [w |-> 800, h |-> 600]

\* a scene item as obs_scene_add makes it: at the origin, scale 1, no
\* rotation; "calls" are the setters the plugin has called on it
HostItemXf == [pos |-> <<0, 0>>, scale |-> <<100, 100>>, rot |-> 0, calls |-> {}]

\* (data->min_x > 0) ? (float)data->min_x : 0.0f
ResolveMin(v) == IF v > 0 THEN v ELSE 0

\* (variant: the configured maximum is used as it is)
ResolveMaxRaw(v, extent) == v

\* (data->max_x > 0) ? (float)data->max_x : cw
ResolveMax(v, extent) == IF v > 0 THEN v ELSE extent

\* if (a > b) std::swap(a, b);
SwapIfGreater(a, b) == IF a > b THEN <<b, a>> ELSE <<a, b>>

\* one value of std::uniform_real_distribution<float>(lo, hi): the lower
\* end, the upper end or the middle
Sample(lo, hi, f) ==
  CASE f = "lo" -> lo
    [] f = "hi" -> hi
    [] OTHER -> (lo + hi) \div 2

\* the random numbers one call draws: dx, dy, ds, ds again, dr
Draws ==
  [x : {"lo", "mid", "hi"}, y : {"lo", "hi"}, s : {"lo", "hi"},
   s2 : {"lo", "hi"}, r : {"lo", "hi"}]

NoDraw == [x |-> "lo", y |-> "lo", s |-> "lo", s2 |-> "lo", r |-> "lo"]

\* (variant: the second axis always gets a draw of its own)
ScaleYOwnDraw(preserve, sx, own) == own

\* float sy = data->preserve_aspect ? sx : ds(gen);
ScaleY(preserve, sx, own) == IF preserve THEN sx ELSE own

\* (variant: the rotation is always set)
SetsRotAlways(disable_rot) == TRUE

\* if (!data->disable_rot)
SetsRot(disable_rot) == ~disable_rot

\* apply_random_transform(data, item, gen): the item afterwards
apply_random_transform(cfg, cv, item, dr) ==
  LET xr == SwapIfGreater(ResolveMin(cfg.min_x), ResolveMax(cfg.max_x, cv.w))
      yr == SwapIfGreater(ResolveMin(cfg.min_y), ResolveMax(cfg.max_y, cv.h))
      sr == SwapIfGreater(cfg.min_scale, cfg.max_scale)
      rr == SwapIfGreater(cfg.min_rot, cfg.max_rot)
      sx == Sample(sr[1], sr[2], dr.s)
      sy == ScaleY(cfg.preserve_aspect, sx, Sample(sr[1], sr[2], dr.s2))
  IN  [pos   |-> <<Sample(xr[1], xr[2], dr.x), Sample(yr[1], yr[2], dr.y)>>,
       scale |-> <<sx, sy>>,
       rot   |-> IF SetsRot(cfg.disable_rot) THEN Sample(rr[1], rr[2], dr.r)
                 ELSE item.rot,
       calls |-> item.calls \cup {"pos", "scale"}
                   \cup (IF SetsRot(cfg.disable_rot) THEN {"rot"} ELSE {})]

\* ---------------------------------------------------------------------
\* Mutex owners
\* ---------------------------------------------------------------------
FreeOwner == [k |-> "free", t |-> "", u |-> 0]

ThOwner(t) == [k |-> "th", t |-> t, u |-> 0]

CbOwner(u) == [k |-> "cb", t |-> "", u |-> u]

\* (variant: a guard that excludes nobody)
CanLockNoExcl(d) == TRUE

\* std::lock_guard constructor can return: nobody holds the mutex
CanLock(d) == active_mutex[d] = FreeOwner

\* the plugin's references on a media source: obs_source_create and
\* obs_source_get_ref give one
obs_source_get_ref(n) == n + 1

\* (variant: the release is left out)
ReleaseLeftOut(n) == n

\* obs_source_release gives one back
obs_source_release(n) == n - 1

\* (variant: the guard outlives its block, the mutex stays taken)
UnlockNever(m, d) == m

\* the closing brace of a block that holds std::lock_guard on d's mutex
Unlock(m, d) == [m EXCEPT ![d] = FreeOwner]

\* ---------------------------------------------------------------------
\* Thread locals and the per-call record
\* ---------------------------------------------------------------------
IdleTh ==
  [pc |-> "idle", entry |-> "", data |-> NULL, count |-> 0, i |-> 0,
   hi |-> 0, uid |-> 0, tmp |-> <<>>]

NoCall ==
  [outcome |-> "none", seen |-> -1, cap |-> 0, attempted |-> 0,
   succeeded |-> 0, failed |-> 0, subs |-> 0, erased |-> 0,
   scene_q |-> FALSE, scene |-> "", status |-> "", reported |-> -1]

NoCtx == [st |-> "none", data |-> NULL, tmp |-> <<>>]

\* ---------------------------------------------------------------------
\* The decisions of do_spawn and on_media_ended
\* ---------------------------------------------------------------------
\* (variant: the catalog is never found empty)
FileListEmptyNever(fl) == FALSE

\* data->file_list.empty()
FileListEmpty(fl) == Len(fl) = 0

\* what obs_frontend_get_current_scene returns when there is a scene
CurrentScene == "scene"

\* (variant: the scene source is never found null)
NoSceneNever(scene_src) == FALSE

\* if (!scene_src)
NoScene(scene_src) == scene_src = NULL

\* (variant: the cap is compared with > instead of >=)
AtCapStrict(active, cap) == active > cap

\* active >= data->max_active
AtCap(active, cap) == active >= cap

\* (variant: spawn_count is used as it is)
SpawnTotalRaw(sc) == sc

\* std::max(1, data->spawn_count)
SpawnTotal(sc) == Max(1, sc)

\* (variant: the vector is assigned the one item)
PushBackAssign(v, item) == <<item>>

\* data->active_items.push_back(item)
PushBack(v, item) == Append(v, item)

\* (variant: the last element is erased, whichever it is)
ErasePopBack(v, item) == IF Len(v) = 0 THEN v ELSE SubSeq(v, 1, Len(v) - 1)

\* v.erase(std::remove(v.begin(), v.end(), ctx->item), v.end())
EraseItem(v, item) == SelectSeq(v, LAMBDA x : x # item)

\* upper end of uniform_int_distribution<size_t>(0, file_list.size() - 1),
\* size_t arithmetic reduced to SizeBits bits
SizeBits == 2

PickHi(n) == (n - 1) % (2 ^ SizeBits)


\* ---------------------------------------------------------------------
\* Initial state: the module is loaded and the host has created instance
\* "A" with some settings (source_create -> source_update)
\* ---------------------------------------------------------------------
\* member initialisers of struct random_media_data
DefaultSpawnCount == 1

DefaultMaxActive == 5

InitRestOn(s, disk) ==
  /\ g_data = "A"
  /\ s_uid = 0
  /\ alive = {"A"}
  /\ post_loaded = TRUE
  /\ g_vendor = Vendor
  /\ requests = AllRequests
  /\ fs = disk
  /\ folder = [d \in Instances |-> IF d = "A" THEN s.folder ELSE EmptyFolder]
  /\ hide_on_end = [d \in Instances |-> IF d = "A" THEN s.hide_on_end ELSE FALSE]
  /\ do_random_transform =
       [d \in Instances |-> IF d = "A" THEN s.random_transform ELSE FALSE]
  /\ spawn_count =
       [d \in Instances |-> IF d = "A" THEN s.spawn_count ELSE DefaultSpawnCount]
  /\ max_active =
       [d \in Instances |-> IF d = "A" THEN s.max_active ELSE DefaultMaxActive]
  /\ xform = [d \in Instances |-> IF d = "A" THEN XformOf(s) ELSE DefaultXform]
  /\ file_list =
       [d \in Instances |->
          IF d = "A" /\ s.folder # EmptyFolder
          THEN Clear(<<>>) \o update_file_list(disk[s.folder], s.folder)
          ELSE <<>>]
  /\ active_mutex = [d \in Instances |-> FreeOwner]
  /\ ctx = [u \in Uids |-> NoCtx]
  /\ media_refs = [u \in Uids |-> 0]
  /\ remove_calls = [u \in Uids |-> 0]
  /\ scene_refs = 0
  /\ transformed = {}
  /\ item_xf = [u \in Uids |-> HostItemXf]
  /\ ub = {}
  /\ th = [t \in Threads |-> IdleTh]
  /\ call = [t \in Threads |-> NoCall]

InitRest(s) == InitRestOn(s, FsInit)

InitWith(s) ==
  /\ InitRest(s)
  /\ canvas = DefaultCanvas
  /\ active_items = [d \in Instances |-> <<>>]
  /\ scene_items = {}

\* the settings explored while two threads run concurrently
ConcSettings ==
  [folder : {FolderA, FolderX}, hide_on_end : BOOLEAN, random_transform : {FALSE},
   spawn_count : {1, MaxSpawnCfg}, max_active : {1, MaxActiveCfg}]

Init == \E s \in ConcSettings : InitWith(s)

\* ---------------------------------------------------------------------
\* Bounding the number of units: a spawn call is started only while the
\* uids it may take, and those the calls in flight may still take, fit
\* ---------------------------------------------------------------------
Reserved(t) ==
  CASE th[t].pc \in {"ds_empty", "ds_cap", "ds_scene"} -> SpawnTotal(MaxSpawnCfg)
    [] th[t].pc = "so_create" -> th[t].count - th[t].i
    [] th[t].pc \in {"so_push", "so_push_w"} ->
         th[t].count - th[t].i - 1
    [] OTHER -> 0

SumReserved ==
  LET f[S \in SUBSET Threads] ==
        IF S = {} THEN 0
        ELSE LET x == CHOOSE y \in S : TRUE IN Reserved(x) + f[S \ {x}]
  IN  f[Threads]

UidsLeft == s_uid + SumReserved + SpawnTotal(MaxSpawnCfg) <= MaxUid

\* for (int i = 0; i < count; ++i) spawn_one(...); : where the loop goes
LoopPc(i, count) == IF i < count THEN "so_create" ELSE "ds_release"

\* (variant: the loop also ends when the unit just registered fills the cap)
NextUnitCapped(t) ==
  [th[t] EXCEPT !.pc = IF /\ th[t].pc = "so_push_w"
                          /\ Len(active_items[th[t].data]) + 1 >= max_active[th[t].data]
                       THEN "ds_release"
                       ELSE LoopPc(th[t].i + 1, th[t].count),
                !.i = th[t].i + 1, !.uid = 0, !.tmp = <<>>]

\* the unit a thread is in has ended: ++i and the loop test
NextUnit(t) ==
  [th[t] EXCEPT !.pc = LoopPc(th[t].i + 1, th[t].count),
                !.i = th[t].i + 1, !.uid = 0, !.tmp = <<>>]

\* (variant: a failed unit ends the batch)
AfterFailureAbort(t) ==
  [th[t] EXCEPT !.pc = "ds_release", !.i = th[t].i + 1, !.uid = 0, !.tmp = <<>>]

\* spawn_one returns early after a host failure: back in the loop of do_spawn
AfterFailure(t) == NextUnit(t)

\* do_spawn returns early: nothing of the locals is kept
EarlyReturn(t) == [th[t] EXCEPT !.pc = "ds_ret"]

\* ---------------------------------------------------------------------
\* Entries into do_spawn
\* ---------------------------------------------------------------------
\* source_activate(d): do_spawn(d)
SourceActivate(t, d) ==
  /\ th[t].pc = "idle"
  /\ d \in alive
  /\ UidsLeft
  /\ th' = [th EXCEPT ![t] = [IdleTh EXCEPT !.pc = "ds_empty", !.entry = "activate",
                                            !.data = d]]
  /\ call' = [call EXCEPT ![t] = NoCall]
  /\ UNCHANGED <<globVars, cfgVars, fs, file_list, active_mutex, active_items, ctx, hostVars>>

\* vendor_spawn_cb: if (!g_data) answer "error"; else do_spawn(g_data)
VendorSpawn(t) ==
  /\ th[t].pc = "idle"
  /\ "spawn" \in requests
  /\ UidsLeft
  /\ IF NotInitialized(g_data)
     THEN /\ th' = [th EXCEPT ![t] = [IdleTh EXCEPT !.pc = "vs_ret",
                                                 !.entry = "vendor_spawn"]]
          /\ call' = [call EXCEPT ![t] = [NoCall EXCEPT !.status = "error"]]
     ELSE /\ th' = [th EXCEPT ![t] = [IdleTh EXCEPT !.pc = "ds_empty",
                                                 !.entry = "vendor_spawn",
                                                 !.data = g_data]]
          /\ call' = [call EXCEPT ![t] = NoCall]
  /\ UNCHANGED <<globVars, cfgVars, fs, file_list, active_mutex, active_items, ctx, hostVars>>

\* ---------------------------------------------------------------------
\* do_spawn
\* ---------------------------------------------------------------------
\* if (data->file_list.empty()) return;
DoSpawnEmptyCheck(t) ==
  /\ th[t].pc = "ds_empty"
  /\ IF FileListEmpty(file_list[th[t].data])
     THEN /\ th' = [th EXCEPT ![t] = EarlyReturn(t)]
          /\ call' = [call EXCEPT ![t].outcome = "empty"]
     ELSE /\ th' = [th EXCEPT ![t].pc = "ds_cap"]
          /\ UNCHANGED call
  /\ UNCHANGED <<globVars, cfgVars, fs, file_list, active_mutex, active_items, ctx, hostVars>>

\* { lock_guard; active = active_items.size(); if (active >= max_active) return; }
DoSpawnCapCheck(t) ==
  LET d      == th[t].data
      active == Len(active_items[d])
  IN  /\ th[t].pc = "ds_cap"
      /\ CanLock(d)
      /\ IF AtCap(active, max_active[d])
         THEN /\ th' = [th EXCEPT ![t] = EarlyReturn(t)]
              /\ call' = [call EXCEPT ![t].outcome = "cap", ![t].seen = active,
                                      ![t].cap = max_active[d]]
         ELSE /\ th' = [th EXCEPT ![t].pc = "ds_scene"]
              /\ call' = [call EXCEPT ![t].seen = active, ![t].cap = max_active[d]]
      /\ UNCHANGED <<globVars, cfgVars, fs, file_list, active_mutex, active_items, ctx,
                     hostVars>>

\* scene_src = obs_frontend_get_current_scene(); if (!scene_src) return;
\* pick(0, file_list.size() - 1); count = std::max(1, spawn_count);
DoSpawnScene(t) ==
  LET d == th[t].data
  IN  /\ th[t].pc = "ds_scene"
      /\ \E scene_src \in {NULL, CurrentScene} :
           IF NoScene(scene_src)
           THEN /\ th' = [th EXCEPT ![t] = EarlyReturn(t)]
                /\ call' = [call EXCEPT ![t].outcome = "noscene", ![t].scene_q = TRUE,
                                        ![t].scene = scene_src]
                /\ UNCHANGED scene_refs
           ELSE /\ scene_refs' = scene_refs + 1
                /\ th' = [th EXCEPT ![t].pc = LoopPc(0, SpawnTotal(spawn_count[d])),
                                    ![t].hi = PickHi(Len(file_list[d])),
                                    ![t].count = SpawnTotal(spawn_count[d]),
                                    ![t].i = 0]
                /\ call' = [call EXCEPT ![t].scene_q = TRUE, ![t].scene = scene_src]
      /\ UNCHANGED <<globVars, cfgVars, fs, file_list, active_mutex, active_items, ctx,
                     scene_items, media_refs, remove_calls, transformed, item_xf, canvas, ub>>


\* ---------------------------------------------------------------------
\* spawn_one
\* ---------------------------------------------------------------------
\* (variant: the counter wraps around after two identifiers)
IncUidWrap(c) == (c % 2) + 1

\* static std::atomic<int> s_uid{0}; ... ++s_uid : one atomic
\* read-modify-write, the value it yields is the incremented one
IncUid(c) == c + 1

\* data->file_list[pick(gen)]; ++s_uid; media = obs_source_create(...);
\* if (!media) return;
\* item = obs_scene_add(scene, media);
\* if (!item) { obs_source_release(media); return; }
SpawnOneCreate(t) ==
  LET d == th[t].data
      u == IncUid(s_uid)
  IN  /\ th[t].pc = "so_create"
      /\ u \in Uids
      /\ \E idx \in 0..th[t].hi, host \in {"no_source", "no_item", "ok"} :
           /\ ub' = IF idx >= Len(file_list[d]) THEN ub \cup {"oob_read"} ELSE ub
           /\ s_uid' = u
           /\ CASE host = "no_source" ->
                     /\ UNCHANGED <<media_refs, scene_items>>
                     /\ th' = [th EXCEPT ![t] = AfterFailure(t)]
                     /\ call' = [call EXCEPT ![t].attempted = @ + 1, ![t].failed = @ + 1]
                [] host = "no_item" ->
                     /\ media_refs' = [media_refs EXCEPT ![u] = obs_source_release(obs_source_get_ref(@))]
                     /\ UNCHANGED scene_items
                     /\ th' = [th EXCEPT ![t] = AfterFailure(t)]
                     /\ call' = [call EXCEPT ![t].attempted = @ + 1, ![t].failed = @ + 1]
                [] OTHER ->
                     /\ media_refs' = [media_refs EXCEPT ![u] = obs_source_get_ref(@)]
                     /\ scene_items' = scene_items \cup {u}
                     /\ th' = [th EXCEPT ![t].pc = "so_push", ![t].uid = u]
                     /\ call' = [call EXCEPT ![t].attempted = @ + 1]
      /\ UNCHANGED <<g_data, alive, post_loaded, g_vendor, requests, cfgVars, fs,
                     file_list, active_mutex, active_items, ctx, remove_calls,
                     scene_refs, transformed, item_xf, canvas>>

\* { std::lock_guard lock(data->active_mutex); ... : the guard is taken and
\* push_back reads the vector
SpawnOnePushLock(t) ==
  LET d == th[t].data
  IN  /\ th[t].pc = "so_push"
      /\ CanLock(d)
      /\ active_mutex' = [active_mutex EXCEPT ![d] = ThOwner(t)]
      /\ th' = [th EXCEPT ![t].pc = "so_push_w", ![t].tmp = active_items[d]]
      /\ UNCHANGED <<globVars, cfgVars, fs, file_list, active_items, ctx, hostVars, call>>

\* ... data->active_items.push_back(item); } : the vector is written and the
\* guard released; then
\* if (do_random_transform) apply_random_transform(...);
\* if (hide_on_end) { obs_source_get_ref(media); ctx = new hide_ctx{...};
\*                    signal_handler_connect(..., on_media_ended, ctx); }
\* obs_source_release(media);
SpawnOnePushWrite(t) ==
  LET d == th[t].data
      u == th[t].uid
  IN  /\ th[t].pc = "so_push_w"
      /\ active_items' = [active_items EXCEPT ![d] = PushBack(th[t].tmp, u)]
      /\ active_mutex' = Unlock(active_mutex, d)
      /\ transformed' = IF do_random_transform[d] THEN transformed \cup {u}
                        ELSE transformed
      /\ \E dr \in IF do_random_transform[d] THEN Draws ELSE {NoDraw} :
           item_xf' = IF do_random_transform[d]
                      THEN [item_xf EXCEPT
                              ![u] = apply_random_transform(xform[d], canvas, @, dr)]
                      ELSE item_xf
      /\ IF hide_on_end[d]
         THEN /\ ctx' = [ctx EXCEPT ![u] = [st |-> "connected", data |-> d, tmp |-> <<>>]]
              /\ media_refs' = [media_refs EXCEPT ![u] = obs_source_release(obs_source_get_ref(@))]
              /\ call' = [call EXCEPT ![t].succeeded = @ + 1, ![t].subs = @ + 1]
         ELSE /\ media_refs' = [media_refs EXCEPT ![u] = obs_source_release(@)]
              /\ call' = [call EXCEPT ![t].succeeded = @ + 1]
              /\ UNCHANGED ctx
      /\ th' = [th EXCEPT ![t] = NextUnit(t)]
      /\ UNCHANGED <<globVars, cfgVars, fs, file_list, scene_items, remove_calls,
                     scene_refs, canvas, ub>>

\* obs_source_release(scene_src); and do_spawn returns
DoSpawnRelease(t) ==
  /\ th[t].pc = "ds_release"
  /\ scene_refs' = scene_refs - 1
  /\ th' = [th EXCEPT ![t].pc = "ds_ret"]
  /\ call' = [call EXCEPT ![t].outcome = "done"]
  /\ UNCHANGED <<globVars, cfgVars, fs, file_list, active_mutex, active_items, ctx,
                 scene_items, media_refs, remove_calls, transformed, item_xf, canvas, ub>>

\* vendor_spawn_cb after do_spawn: status "ok", active_count read under the mutex
\* (g_data is read again: when source_destroy has reset it meanwhile,
\* g_data->active_mutex is a null pointer dereference)
VendorSpawnSize(t) ==
  /\ th[t].pc = "ds_ret"
  /\ th[t].entry = "vendor_spawn"
  /\ th' = [th EXCEPT ![t].pc = "vs_ret"]
  /\ IF g_data = NULL
     THEN /\ ub' = ub \cup {"null_deref"}
          /\ call' = [call EXCEPT ![t].status = "ok"]
     ELSE /\ CanLock(g_data)
          /\ call' = [call EXCEPT ![t].status = "ok",
                                  ![t].reported = Len(active_items[g_data])]
          /\ UNCHANGED ub
  /\ UNCHANGED <<globVars, cfgVars, fs, file_list, active_mutex, active_items, ctx,
                 scene_items, media_refs, remove_calls, scene_refs, transformed,
                 item_xf, canvas>>

\* the handler a thread runs returns to the host
Return(t) ==
  /\ \/ th[t].pc \in {"vs_ret", "vr_ret", "su_ret", "sc_ret", "sd_ret"}
     \/ th[t].pc = "ds_ret" /\ th[t].entry = "activate"
  /\ th' = [th EXCEPT ![t] = IdleTh]
  /\ call' = [call EXCEPT ![t] = NoCall]
  /\ UNCHANGED <<globVars, cfgVars, fs, file_list, active_mutex, active_items, ctx, hostVars>>

\* ---------------------------------------------------------------------
\* Catalog reload and settings update
\* ---------------------------------------------------------------------
\* vendor_reload_cb
VendorReload(t) ==
  /\ th[t].pc = "idle"
  /\ "reload_files" \in requests
  /\ IF NotInitialized(g_data)
     THEN /\ call' = [call EXCEPT ![t] = [NoCall EXCEPT !.status = "error"]]
          /\ UNCHANGED file_list
     ELSE LET fl == Clear(file_list[g_data])
                      \o update_file_list(fs[folder[g_data]], folder[g_data])
          IN  /\ file_list' = [file_list EXCEPT ![g_data] = fl]
              /\ call' = [call EXCEPT ![t] = [NoCall EXCEPT !.status = "ok",
                                                            !.reported = Len(fl)]]
  /\ th' = [th EXCEPT ![t] = [IdleTh EXCEPT !.pc = "vr_ret", !.entry = "vendor_reload",
                                            !.data = g_data]]
  /\ UNCHANGED <<globVars, cfgVars, fs, active_mutex, active_items, ctx, hostVars>>

\* (variant: every update counts as a folder change)
FolderChangedAlways(new_folder, old_folder) == TRUE

\* bool folder_changed = (new_folder != data->folder);
FolderChanged(new_folder, old_folder) == new_folder # old_folder

\* source_update(d, settings)
SourceUpdate(t, d, s) ==
  LET folder_changed == FolderChanged(s.folder, folder[d])
  IN  /\ th[t].pc = "idle"
      /\ d \in alive
      /\ folder' = [folder EXCEPT ![d] = s.folder]
      /\ do_random_transform' = [do_random_transform EXCEPT ![d] = s.random_transform]
      /\ hide_on_end' = [hide_on_end EXCEPT ![d] = s.hide_on_end]
      /\ spawn_count' = [spawn_count EXCEPT ![d] = s.spawn_count]
      /\ max_active' = [max_active EXCEPT ![d] = s.max_active]
      /\ xform' = [xform EXCEPT ![d] = XformOf(s)]
      /\ file_list' = IF folder_changed
                      THEN [file_list EXCEPT
                              ![d] = Clear(@) \o update_file_list(fs[s.folder], s.folder)]
                      ELSE file_list
      /\ th' = [th EXCEPT ![t] = [IdleTh EXCEPT !.pc = "su_ret", !.entry = "update",
                                                !.data = d]]
      /\ call' = [call EXCEPT ![t] = NoCall]
      /\ UNCHANGED <<globVars, fs, active_mutex, active_items, ctx, hostVars>>

\* ---------------------------------------------------------------------
\* on_media_ended(ctx), delivered by the host for a connected hide_ctx
\* ---------------------------------------------------------------------
\* { std::lock_guard lock(ctx->data->active_mutex); auto &v = ...active_items;
MediaEndedLock(u) ==
  LET d == ctx[u].data
  IN  /\ ctx[u].st = "connected"
      /\ d \in alive
      /\ CanLock(d)
      /\ active_mutex' = [active_mutex EXCEPT ![d] = CbOwner(u)]
      /\ ctx' = [ctx EXCEPT ![u].st = "locked", ![u].tmp = active_items[d]]
      /\ UNCHANGED <<globVars, cfgVars, fs, file_list, active_items, hostVars, th, call>>

\* v.erase(std::remove(v.begin(), v.end(), ctx->item), v.end()); }
MediaEndedErase(u) ==
  LET d == ctx[u].data
  IN  /\ ctx[u].st = "locked"
      /\ active_items' = [active_items EXCEPT ![d] = EraseItem(ctx[u].tmp, u)]
      /\ active_mutex' = Unlock(active_mutex, d)
      /\ ctx' = [ctx EXCEPT ![u].st = "unlinked", ![u].tmp = <<>>]
      /\ call' = [t \in Threads |->
                    IF th[t].data = d /\ call[t].seen >= 0
                    THEN [call[t] EXCEPT !.erased = @ + 1] ELSE call[t]]
      /\ UNCHANGED <<globVars, cfgVars, fs, file_list, hostVars, th>>

\* obs_sceneitem_remove(ctx->item); obs_source_release(ctx->media_source);
\* delete ctx;
MediaEndedRemove(u) ==
  /\ ctx[u].st = "unlinked"
  /\ scene_items' = scene_items \ {u}
  /\ remove_calls' = [remove_calls EXCEPT ![u] = @ + 1]
  /\ media_refs' = [media_refs EXCEPT ![u] = obs_source_release(@)]
  /\ ctx' = [ctx EXCEPT ![u].st = "freed"]
  /\ UNCHANGED <<globVars, cfgVars, fs, file_list, active_mutex, active_items,
                 scene_refs, transformed, item_xf, canvas, ub, th, call>>

\* ---------------------------------------------------------------------
\* Specification: two host threads call into the instance, the host
\* delivers each completion at most once
\* ---------------------------------------------------------------------
ThreadStep(t) ==
  \/ \E d \in Instances : SourceActivate(t, d)
  \/ VendorSpawn(t)
  \/ DoSpawnEmptyCheck(t)
  \/ DoSpawnCapCheck(t)
  \/ DoSpawnScene(t)
  \/ SpawnOneCreate(t)
  \/ SpawnOnePushLock(t)
  \/ SpawnOnePushWrite(t)
  \/ DoSpawnRelease(t)
  \/ VendorSpawnSize(t)
  \/ VendorReload(t)
  \/ Return(t)

CallbackStep(u) ==
  \/ MediaEndedLock(u)
  \/ MediaEndedErase(u)
  \/ MediaEndedRemove(u)

Next ==
  \/ \E t \in Threads : ThreadStep(t)
  \/ \E u \in Uids : CallbackStep(u)

Spec == Init /\ [][Next]_vars


\* ---------------------------------------------------------------------
\* Specification SpecSeq: one host thread, so that handlers never overlap,
\* and a configuration fixed at creation; completions still arrive
\* asynchronously
\* ---------------------------------------------------------------------
InitSeq == \E s \in {x \in Settings : ~x.random_transform} : InitWith(s)

NextSeq ==
  \/ ThreadStep("t1")
  \/ \E u \in Uids : CallbackStep(u)

SpecSeq == InitSeq /\ [][NextSeq]_vars

\* a thread inside do_spawn keeps running
SpawnProgress(t) ==
  \/ DoSpawnEmptyCheck(t)
  \/ DoSpawnCapCheck(t)
  \/ DoSpawnScene(t)
  \/ SpawnOneCreate(t)
  \/ SpawnOnePushLock(t)
  \/ SpawnOnePushWrite(t)
  \/ DoSpawnRelease(t)

\* SpecSeq with scheduling: the thread inside do_spawn is not starved, and
\* a completion callback that holds active_mutex finishes its erase
FairSeq ==
  /\ SpecSeq
  /\ WF_vars(SpawnProgress("t1"))
  /\ \A u \in Uids : WF_vars(MediaEndedErase(u))

\* Specification FairMutex: two host threads and the completion callbacks
\* contend for active_mutex of an instance that removes items on end; a
\* thread or a callback that holds the mutex is not suspended forever
\* inside its critical section
MutexSettings ==
  [folder : {FolderA}, hide_on_end : {TRUE}, random_transform : {FALSE},
   spawn_count : {DefaultSpawnCount}, max_active : {MaxActiveCfg}]

InitMutex == \E s \in MutexSettings : InitWith(s)

FairMutex ==
  /\ InitMutex /\ [][Next]_vars
  /\ \A t \in Threads : WF_vars(SpawnOnePushWrite(t))
  /\ \A u \in Uids : WF_vars(MediaEndedErase(u))

\* ---------------------------------------------------------------------
\* Specification SpecUpd: one host thread that also updates the settings,
\* while the host's file system changes
\* ---------------------------------------------------------------------
\* the host deletes c.png from FolderA, or puts it back
HostFsChange ==
  /\ fs' = IF fs = FsInit THEN FsAlt ELSE FsInit
  /\ UNCHANGED <<globVars, cfgVars, file_list, active_mutex, active_items, ctx,
                 hostVars, th, call>>

\* btn_reload_files(props, property, data), the "reload" button of the
\* properties view (the variant of the plugin that has buttons):
\* update_file_list(data)
BtnReloadFiles(t, d) ==
  /\ th[t].pc = "idle"
  /\ d \in alive
  /\ file_list' = [file_list EXCEPT
                     ![d] = Clear(@) \o update_file_list(fs[folder[d]], folder[d])]
  /\ th' = [th EXCEPT ![t] = [IdleTh EXCEPT !.pc = "vr_ret", !.entry = "btn_reload",
                                            !.data = d]]
  /\ call' = [call EXCEPT ![t] = NoCall]
  /\ UNCHANGED <<globVars, cfgVars, fs, active_mutex, active_items, ctx, hostVars>>

UpdSettings ==
  [folder : {FolderA, FolderB, EmptyFolder}, hide_on_end : BOOLEAN,
   random_transform : {FALSE}, spawn_count : {1}, max_active : {1, MaxActiveCfg}]

InitUpd == \E s \in UpdSettings : InitWith(s)

NextUpd ==
  \/ ThreadStep("t1")
  \/ \E d \in Instances, s \in UpdSettings : SourceUpdate("t1", d, s)
  \/ \E d \in Instances : BtnReloadFiles("t1", d)
  \/ HostFsChange
  \/ \E u \in Uids : CallbackStep(u)

SpecUpd == InitUpd /\ [][NextUpd]_vars

\* ---------------------------------------------------------------------
\* Specification SpecDup: as SpecSeq, but the host may deliver media_ended
\* once more for a hide_ctx that on_media_ended has already deleted (the
\* plugin never disconnects the signal)
\* ---------------------------------------------------------------------
\* on_media_ended(ctx) with ctx freed: ctx->data, ctx->item and
\* ctx->media_source are read from freed memory.  The item read is the old
\* one (the memory is intact) or whatever handle now lies there.
MediaEndedAgain(u) ==
  LET d == ctx[u].data
  IN  /\ ctx[u].st = "freed"
      /\ CanLock(d)
      /\ \E x \in Uids :
           /\ active_items' = [active_items EXCEPT ![d] = EraseItem(@, x)]
           /\ scene_items' = scene_items \ {x}
           /\ remove_calls' = [remove_calls EXCEPT ![x] = @ + 1]
           /\ media_refs' = [media_refs EXCEPT ![x] = obs_source_release(@)]
      /\ ub' = ub \cup {"ctx_uaf"}
      /\ ctx' = [ctx EXCEPT ![u].st = "freed_twice"]
      /\ call' = [t \in Threads |->
                    IF th[t].data = d /\ call[t].seen >= 0
                    THEN [call[t] EXCEPT !.erased = @ + 1] ELSE call[t]]
      /\ UNCHANGED <<globVars, cfgVars, fs, file_list, active_mutex, scene_refs,
                     transformed, item_xf, canvas, th>>

DupSettings ==
  [folder : {FolderA}, hide_on_end : BOOLEAN, random_transform : {FALSE},
   spawn_count : {1, MaxSpawnCfg}, max_active : {MaxActiveCfg}]

InitDup == \E s \in DupSettings : InitWith(s)

NextDup ==
  \/ ThreadStep("t1")
  \/ \E u \in Uids : CallbackStep(u)
  \/ \E u \in Uids : MediaEndedAgain(u)

SpecDup == InitDup /\ [][NextDup]_vars


\* ---------------------------------------------------------------------
\* Specification SpecErase: the erase of on_media_ended applied to an
\* active list and an item drawn from bounded sets, then applied again
\* ---------------------------------------------------------------------
\* active lists: no handle twice, as long as the cap and one batch allow
ActiveLists ==
  {v \in UNION {[1..n -> Uids] : n \in 0..(MaxActiveCfg + MaxSpawnCfg - 1)} : NoDup(v)}

EraseSettings ==
  [folder : {FolderA}, hide_on_end : {TRUE}, random_transform : {FALSE},
   spawn_count : {MaxSpawnCfg}, max_active : {MaxActiveCfg}]

InitErase ==
  /\ \E s \in EraseSettings : InitRest(s)
  /\ canvas = DefaultCanvas
  /\ \E v \in ActiveLists :
       /\ active_items = [d \in Instances |-> IF d = "A" THEN v ELSE <<>>]
       /\ scene_items = Range(v)

\* the erase runs for item x: "t1" keeps the list it found and the item
UnregisterOnce(x) ==
  /\ th["t1"].pc = "idle"
  /\ active_items' = [active_items EXCEPT !["A"] = EraseItem(@, x)]
  /\ th' = [th EXCEPT !["t1"].pc = "er_once", !["t1"].data = "A",
                      !["t1"].uid = x, !["t1"].tmp = active_items["A"]]
  /\ UNCHANGED <<globVars, cfgVars, fs, file_list, active_mutex, ctx, hostVars, call>>

\* the erase runs once more for the same item
UnregisterAgain ==
  /\ th["t1"].pc = "er_once"
  /\ active_items' = [active_items EXCEPT !["A"] = EraseItem(@, th["t1"].uid)]
  /\ th' = [th EXCEPT !["t1"].pc = "er_twice", !["t1"].tmp = active_items["A"]]
  /\ UNCHANGED <<globVars, cfgVars, fs, file_list, active_mutex, ctx, hostVars, call>>

UnregisterDone ==
  /\ th["t1"].pc = "er_twice"
  /\ th' = [th EXCEPT !["t1"] = IdleTh]
  /\ UNCHANGED <<globVars, cfgVars, fs, file_list, active_mutex, active_items, ctx,
                 hostVars, call>>

NextErase ==
  \/ \E x \in Uids : UnregisterOnce(x)
  \/ UnregisterAgain
  \/ UnregisterDone

SpecErase == InitErase /\ [][NextErase]_vars

\* ---------------------------------------------------------------------
\* Specification SpecLife: one host thread that also creates and destroys
\* instances; completions may arrive after their instance was destroyed
\* ---------------------------------------------------------------------
\* source_create(settings, source): new random_media_data(); g_data = data;
\* source_update(data, settings)
SourceCreate(t, d, s) ==
  /\ th[t].pc = "idle"
  /\ d \notin alive
  /\ alive' = alive \cup {d}
  /\ g_data' = d
  /\ folder' = [folder EXCEPT ![d] = s.folder]
  /\ do_random_transform' = [do_random_transform EXCEPT ![d] = s.random_transform]
  /\ hide_on_end' = [hide_on_end EXCEPT ![d] = s.hide_on_end]
  /\ spawn_count' = [spawn_count EXCEPT ![d] = s.spawn_count]
  /\ max_active' = [max_active EXCEPT ![d] = s.max_active]
  /\ xform' = [xform EXCEPT ![d] = XformOf(s)]
  /\ file_list' = [file_list EXCEPT
                     ![d] = IF s.folder # EmptyFolder
                            THEN Clear(<<>>) \o update_file_list(fs[s.folder], s.folder)
                            ELSE <<>>]
  /\ active_mutex' = [active_mutex EXCEPT ![d] = FreeOwner]
  /\ active_items' = [active_items EXCEPT ![d] = <<>>]
  /\ th' = [th EXCEPT ![t] = [IdleTh EXCEPT !.pc = "sc_ret", !.entry = "create",
                                            !.data = d]]
  /\ call' = [call EXCEPT ![t] = NoCall]
  /\ UNCHANGED <<s_uid, post_loaded, g_vendor, requests, fs, ctx, hostVars>>

\* source_destroy(d): if (g_data == data) g_data = nullptr; delete data;
\* (a destroy while a completion callback is inside its critical section
\* is not explored)
SourceDestroy(t, d) ==
  /\ th[t].pc = "idle"
  /\ d \in alive
  /\ active_mutex[d] = FreeOwner
  /\ g_data' = IF g_data = d THEN NULL ELSE g_data
  /\ alive' = alive \ {d}
  /\ th' = [th EXCEPT ![t] = [IdleTh EXCEPT !.pc = "sd_ret", !.entry = "destroy",
                                            !.data = d]]
  /\ call' = [call EXCEPT ![t] = NoCall]
  /\ UNCHANGED <<s_uid, post_loaded, g_vendor, requests, cfgVars, fs, file_list,
                 active_mutex, active_items, ctx, hostVars>>

\* on_media_ended(ctx) when ctx->data was deleted by source_destroy: the
\* mutex and the vector of the deleted instance are used; the erase may or
\* may not take effect on what is left of the vector
MediaEndedDangling(u) ==
  LET d == ctx[u].data
  IN  /\ ctx[u].st = "connected"
      /\ d \notin alive
      /\ ub' = ub \cup {"data_uaf"}
      /\ \E v \in {active_items[d], EraseItem(active_items[d], u)} :
           active_items' = [active_items EXCEPT ![d] = v]
      /\ scene_items' = scene_items \ {u}
      /\ remove_calls' = [remove_calls EXCEPT ![u] = @ + 1]
      /\ media_refs' = [media_refs EXCEPT ![u] = obs_source_release(@)]
      /\ ctx' = [ctx EXCEPT ![u].st = "freed"]
      /\ UNCHANGED <<globVars, cfgVars, fs, file_list, active_mutex, scene_refs,
                     transformed, item_xf, canvas, th, call>>

LifeSettings ==
  [folder : {FolderA, FolderX}, hide_on_end : BOOLEAN, random_transform : {FALSE},
   spawn_count : {DefaultSpawnCount}, max_active : {1, MaxActiveCfg}]

\* the settings of the instances created later
CreateSettings ==
  [folder : {FolderA, FolderX}, hide_on_end : {TRUE}, random_transform : {FALSE},
   spawn_count : {DefaultSpawnCount}, max_active : {MaxActiveCfg}]

InitLife == \E s \in LifeSettings : InitWith(s)

NextLife ==
  \/ ThreadStep("t1")
  \/ \E d \in Instances, s \in CreateSettings : SourceCreate("t1", d, s)
  \/ \E d \in Instances : SourceDestroy("t1", d)
  \/ \E u \in Uids : CallbackStep(u)
  \/ \E u \in Uids : MediaEndedDangling(u)

SpecLife == InitLife /\ [][NextLife]_vars

\* ---------------------------------------------------------------------
\* Specification SpecLoad: the module was loaded and obs_module_post_load
\* has not run yet; obs-websocket may be missing, and each request
\* registration may fail.  The host creates instance "A" afterwards.
\* ---------------------------------------------------------------------
\* (variant: the vendor is never found missing)
VendorMissingNever(v) == FALSE

\* if (!g_vendor) in obs_module_post_load
VendorMissing(v) == v = NULL

\* obs_module_post_load
ObsModulePostLoad ==
  /\ ~post_loaded
  /\ \E v \in {NULL, Vendor}, registered \in SUBSET AllRequests :
       /\ g_vendor' = v
       /\ requests' = IF VendorMissing(v) THEN {} ELSE registered
  /\ post_loaded' = TRUE
  /\ UNCHANGED <<g_data, s_uid, alive, cfgVars, fs, file_list, active_mutex,
                 active_items, ctx, hostVars, th, call>>

LoadSettings ==
  [folder : {FolderA, FolderX}, hide_on_end : BOOLEAN, random_transform : {FALSE},
   spawn_count : {DefaultSpawnCount, MaxSpawnCfg}, max_active : {1, MaxActiveCfg}]

InitLoad ==
  /\ g_data = NULL
  /\ s_uid = 0
  /\ alive = {}
  /\ post_loaded = FALSE
  /\ g_vendor = NULL
  /\ requests = {}
  /\ fs = FsInit
  /\ folder = [d \in Instances |-> EmptyFolder]
  /\ hide_on_end = [d \in Instances |-> FALSE]
  /\ do_random_transform = [d \in Instances |-> FALSE]
  /\ spawn_count = [d \in Instances |-> DefaultSpawnCount]
  /\ max_active = [d \in Instances |-> DefaultMaxActive]
  /\ xform = [d \in Instances |-> DefaultXform]
  /\ canvas = DefaultCanvas
  /\ file_list = [d \in Instances |-> <<>>]
  /\ active_mutex = [d \in Instances |-> FreeOwner]
  /\ active_items = [d \in Instances |-> <<>>]
  /\ ctx = [u \in Uids |-> NoCtx]
  /\ scene_items = {}
  /\ media_refs = [u \in Uids |-> 0]
  /\ remove_calls = [u \in Uids |-> 0]
  /\ scene_refs = 0
  /\ transformed = {}
  /\ item_xf = [u \in Uids |-> HostItemXf]
  /\ ub = {}
  /\ th = [t \in Threads |-> IdleTh]
  /\ call = [t \in Threads |-> NoCall]

NextLoad ==
  \/ ObsModulePostLoad
  \/ post_loaded /\ \E s \in LoadSettings : SourceCreate("t1", "A", s)
  \/ ThreadStep("t1")
  \/ \E u \in Uids : CallbackStep(u)

SpecLoad == InitLoad /\ [][NextLoad]_vars

\* ---------------------------------------------------------------------
\* Specification SpecXf: the random transform.  The instance is created
\* with transform settings and a canvas drawn from bounded sets; one host
\* thread spawns a single item (max_active = 1, no removal on end)
\* ---------------------------------------------------------------------
XformCfgs ==
  [min_scale : {50, 150}, max_scale : {100}, preserve_aspect : BOOLEAN,
   min_rot : {-90, 90}, max_rot : {0}, disable_rot : BOOLEAN,
   min_x : {-1, 100, 500}, max_x : {0, 100, 500},
   min_y : {0, 300}, max_y : {-1, 200}]

Canvases == {[w |-> 400, h |-> 300], [w |-> 0, h |-> 0]}

XfSettings ==
  [folder : {FolderA}, hide_on_end : {FALSE}, random_transform : BOOLEAN,
   spawn_count : {DefaultSpawnCount}, max_active : {1}, xform : XformCfgs]

InitXf ==
  /\ \E s \in XfSettings : InitRest(s)
  /\ canvas \in Canvases
  /\ active_items = [d \in Instances |-> <<>>]
  /\ scene_items = {}

NextXf == ThreadStep("t1")

SpecXf == InitXf /\ [][NextXf]_vars

\* ---------------------------------------------------------------------
\* Specification SpecCat: the catalog.  The host's media folders hold any
\* directory listing of up to MaxDirLen entries; one host thread reloads
\* the catalog and updates the settings while files disappear from disk
\* ---------------------------------------------------------------------
\* longest directory listing os_readdir yields
MaxDirLen == 2

\* ent->d_name of the entries os_readdir can yield
EntryNames ==
  { <<"a", ".", "m", "p", "4">>, <<"A", ".", "M", "P", "4">>,
    <<"b", ".", "t", "x", "t">>, <<"m", "p", "4">>,
    <<"c", ".", "p", "n", "g", ".", "t", "x", "t">>,
    <<"d", ".", "t", "a", "r", ".", "J", "p", "E", "g">>,
    <<".", "g", "i", "f">>, <<"e", ".">>, <<"f", ".", "m", "p">> }

\* struct os_dirent: d_name and directory
DirEntries == [d_name : EntryNames, directory : BOOLEAN]

\* the listings of a directory: no name twice
DirListings ==
  {l \in UNION {[1..n -> DirEntries] : n \in 0..MaxDirLen} :
     \A a, b \in 1..Len(l) : l[a].d_name = l[b].d_name => a = b}

\* FolderA and FolderB can be opened and hold the listing l
DiskWith(l) ==
  [f \in Folders |->
     IF f \in {FolderA, FolderB} THEN [ok |-> TRUE, ents |-> l]
     ELSE [ok |-> FALSE, ents |-> <<>>]]

CatSettings ==
  [folder : Folders, hide_on_end : {FALSE}, random_transform : {FALSE},
   spawn_count : {DefaultSpawnCount}, max_active : {MaxActiveCfg}]

InitCat ==
  /\ \E s \in CatSettings, l \in DirListings : InitRestOn(s, DiskWith(l))
  /\ canvas = DefaultCanvas
  /\ active_items = [d \in Instances |-> <<>>]
  /\ scene_items = {}

\* the host deletes the first file of the media folders
HostDirShrink ==
  /\ fs[FolderA].ents # <<>>
  /\ fs' = DiskWith(Tail(fs[FolderA].ents))
  /\ UNCHANGED <<globVars, cfgVars, file_list, active_mutex, active_items, ctx,
                 hostVars, th, call>>

NextCat ==
  \/ VendorReload("t1")
  \/ \E d \in Instances, s \in CatSettings : SourceUpdate("t1", d, s)
  \/ Return("t1")
  \/ HostDirShrink

SpecCat == InitCat /\ [][NextCat]_vars

\* ---------------------------------------------------------------------
\* Specification SpecCv: the variant of the plugin whose transform is
\* relative to the canvas (scale in percent of the canvas width, position
\* drawn from what the item leaves free).  Sizes are integers chosen so
\* that every quotient below is exact.  One host thread spawns a single
\* item (max_active = 1, no removal on end).
\* ---------------------------------------------------------------------
\* obs_source_get_width / obs_source_get_height of the new media source;
\* 0 while the media has not been opened yet
NaturalSizes == {<<100, 100>>, <<100, 300>>, <<0, 0>>}

\* if (src_w < 1.0f) src_w = cw * 0.3f;
NaturalOr(v, extent) == IF v < 1 THEN (extent * 3) \div 10 ELSE v

\* std::max(0.0f, cw - item_w)
FreeRoom(extent, size) == Max(0, extent - size)

\* the random transform inside spawn_one: the item afterwards.  "scale" is
\* in percent, "size" is item_w x item_h.
canvas_transform(cfg, cv, nat, item, dr) ==
  LET sr      == SwapIfGreater(cfg.min_scale, cfg.max_scale)
      rr      == SwapIfGreater(cfg.min_rot, cfg.max_rot)
      sx      == (Sample(sr[1], sr[2], dr.s) * cv.w) \div 100
      src_w   == NaturalOr(nat[1], cv.w)
      src_h   == NaturalOr(nat[2], cv.h)
      scale_x == (sx * 100) \div src_w
      scale_y == IF cfg.preserve_aspect THEN scale_x
                 ELSE (((Sample(sr[1], sr[2], dr.s2) * cv.h) \div 100) * 100) \div src_h
      item_w  == (src_w * scale_x) \div 100
      item_h  == (src_h * scale_y) \div 100
      max_x   == FreeRoom(cv.w, item_w)
      max_y   == FreeRoom(cv.h, item_h)
  IN  [pos   |-> <<Sample(0, max_x, dr.x), Sample(0, max_y, dr.y)>>,
       scale |-> <<scale_x, scale_y>>,
       size  |-> <<item_w, item_h>>,
       nat   |-> <<src_w, src_h>>,
       rot   |-> IF ~cfg.disable_rot THEN Sample(rr[1], rr[2], dr.r) ELSE item.rot,
       calls |-> item.calls \cup {"pos", "scale"}
                   \cup (IF ~cfg.disable_rot THEN {"rot"} ELSE {})]

CvDraws ==
  [x : {"lo", "hi"}, y : {"lo", "hi"}, s : {"lo", "hi"}, s2 : {"lo", "hi"}, r : {"lo"}]

\* spawn_one after obs_scene_add succeeded: the random transform, then the
\* registration under the mutex, the completion subscription and the
\* release of the creation reference
SpawnOneCanvas(t) ==
  LET d == th[t].data
      u == th[t].uid
  IN  /\ th[t].pc = "so_push"
      /\ CanLock(d)
      /\ \E nat \in NaturalSizes, dr \in CvDraws :
           item_xf' = IF do_random_transform[d]
                      THEN [item_xf EXCEPT
                              ![u] = canvas_transform(xform[d], canvas, nat, @, dr)]
                      ELSE item_xf
      /\ transformed' = IF do_random_transform[d] THEN transformed \cup {u}
                        ELSE transformed
      /\ active_items' = [active_items EXCEPT ![d] = PushBack(@, u)]
      /\ IF hide_on_end[d]
         THEN /\ ctx' = [ctx EXCEPT ![u] = [st |-> "connected", data |-> d, tmp |-> <<>>]]
              /\ media_refs' = [media_refs EXCEPT ![u] = obs_source_release(obs_source_get_ref(@))]
              /\ call' = [call EXCEPT ![t].succeeded = @ + 1, ![t].subs = @ + 1]
         ELSE /\ media_refs' = [media_refs EXCEPT ![u] = obs_source_release(@)]
              /\ call' = [call EXCEPT ![t].succeeded = @ + 1]
              /\ UNCHANGED ctx
      /\ th' = [th EXCEPT ![t] = NextUnit(t)]
      /\ UNCHANGED <<globVars, cfgVars, fs, file_list, active_mutex, scene_items,
                     remove_calls, scene_refs, canvas, ub>>

\* scale ranges inside the sliders' 5..100 and one above it (a settings
\* object is not bound by the sliders)
CvXformCfgs ==
  [min_scale : {30, 60}, max_scale : {30, 150}, preserve_aspect : BOOLEAN,
   min_rot : {-30}, max_rot : {30}, disable_rot : BOOLEAN]

CvCanvases == {[w |-> 400, h |-> 300], [w |-> 200, h |-> 300]}

CvSettings ==
  [folder : {FolderA}, hide_on_end : {FALSE}, random_transform : BOOLEAN,
   spawn_count : {DefaultSpawnCount}, max_active : {1}, xform : CvXformCfgs]

InitCv ==
  /\ \E s \in CvSettings : InitRest(s)
  /\ canvas \in CvCanvases
  /\ active_items = [d \in Instances |-> <<>>]
  /\ scene_items = {}

NextCv ==
  \/ VendorSpawn("t1")
  \/ DoSpawnEmptyCheck("t1")
  \/ DoSpawnCapCheck("t1")
  \/ DoSpawnScene("t1")
  \/ SpawnOneCreate("t1")
  \/ SpawnOneCanvas("t1")
  \/ DoSpawnRelease("t1")
  \/ VendorSpawnSize("t1")
  \/ Return("t1")

SpecCv == InitCv /\ [][NextCv]_vars

\* ---------------------------------------------------------------------
\* Specification SpecReload: one host thread spawns while another one
\* serves reload_files requests and settings updates, and files come and
\* go on disk.  The catalog is read and rebuilt without a lock.
\* ---------------------------------------------------------------------
ReloadSettings ==
  [folder : {FolderA, FolderB}, hide_on_end : {FALSE}, random_transform : {FALSE},
   spawn_count : {1, MaxSpawnCfg}, max_active : {MaxActiveCfg}]

InitReload == \E s \in ReloadSettings : InitWith(s)

NextReload ==
  \/ ThreadStep("t1")
  \/ VendorReload("t2")
  \/ \E d \in Instances, s \in ReloadSettings : SourceUpdate("t2", d, s)
  \/ Return("t2")
  \/ HostFsChange

SpecReload == InitReload /\ [][NextReload]_vars

\* ---------------------------------------------------------------------
\* Specification SpecTeardown: one host thread serves vendor requests while
\* another one creates and destroys instances.  g_data is a plain pointer
\* read and written without synchronisation.
\* ---------------------------------------------------------------------
\* the steps of do_spawn / spawn_one that use the data pointer they were
\* given
UsesData(t) == th[t].pc \in {"ds_empty", "ds_cap", "ds_scene", "so_create", "so_push"}

\* a step of do_spawn / spawn_one on an instance that source_destroy has
\* deleted uses freed memory: either the memory is still intact and the
\* step goes on as on a live instance, or the thread crashes here
UseAfterDestroy(t) ==
  /\ UsesData(t)
  /\ th[t].data \notin alive
  /\ ub' = ub \cup {"data_uaf"}
  /\ th' = [th EXCEPT ![t].pc = "crashed"]
  /\ call' = [call EXCEPT ![t].outcome = "crashed"]
  /\ UNCHANGED <<globVars, cfgVars, fs, file_list, active_mutex, active_items, ctx,
                 scene_items, media_refs, remove_calls, scene_refs, transformed,
                 item_xf, canvas>>

\* what a thread of obs-websocket runs
VendorStep(t) ==
  \/ VendorSpawn(t)
  \/ DoSpawnEmptyCheck(t)
  \/ DoSpawnCapCheck(t)
  \/ DoSpawnScene(t)
  \/ SpawnOneCreate(t)
  \/ SpawnOnePushLock(t)
  \/ SpawnOnePushWrite(t)
  \/ DoSpawnRelease(t)
  \/ VendorSpawnSize(t)
  \/ VendorReload(t)
  \/ Return(t)

TeardownSettings ==
  [folder : {FolderA}, hide_on_end : {FALSE}, random_transform : {FALSE},
   spawn_count : {DefaultSpawnCount}, max_active : {1}]

InitTeardown == \E s \in TeardownSettings : InitWith(s)

NextTeardown ==
  \/ VendorStep("t1")
  \/ UseAfterDestroy("t1")
  \/ \E d \in Instances, s \in TeardownSettings : SourceCreate("t2", d, s)
  \/ \E d \in Instances : SourceDestroy("t2", d)
  \/ Return("t2")

SpecTeardown == InitTeardown /\ [][NextTeardown]_vars

\* =====================================================================
\* Claims
\* =====================================================================
\* the threads that are inside do_spawn or have just returned from it
InSpawnCall(t) == th[t].entry \in {"activate", "vendor_spawn"} /\ th[t].data # NULL

\* C1: a spawn call whose capacity check finds the number of active items
\* >= max_active (a count above the cap and max_active <= 0 included)
\* returns at that check: it attempts no unit, registers nothing, attaches
\* no subscription, and the active count stays what the check saw (as long
\* as no completion callback removes an item).
C1_AtCapSpawnsNothing ==
  \A t \in Threads :
    (InSpawnCall(t) /\ call[t].seen >= 0 /\ call[t].seen >= call[t].cap) =>
      /\ call[t].outcome = "cap"
      /\ th[t].pc \in {"ds_ret", "vs_ret"}
      /\ call[t].attempted = 0
      /\ call[t].succeeded = 0
      /\ call[t].subs = 0
      /\ ~call[t].scene_q
      /\ (call[t].erased = 0 => Len(active_items[th[t].data]) = call[t].seen)

\* max_active = 2, two active, spawn_count = 1: the call was skipped and the
\* active count is still 2
C1_Witness ==
  \E t \in Threads :
    /\ call[t].outcome = "cap"
    /\ call[t].seen = 2
    /\ max_active["A"] = 2
    /\ spawn_count["A"] = 1
    /\ Len(active_items["A"]) = 2

\* C2 as stated: with a fixed configuration and spawn calls that do not
\* overlap, the active count never exceeds max_active + max(1, spawn_count) - 1.
C2_OvershootBound ==
  \A d \in alive :
    Len(active_items[d]) <= max_active[d] + Max(1, spawn_count[d]) - 1

\* C2 amended: with a fixed configuration and spawn calls that do not
\* overlap, the active count never exceeds
\* max(0, max_active + max(1, spawn_count) - 1).
C2_OvershootBoundNonNeg ==
  \A d \in alive :
    Len(active_items[d]) <= Max(0, max_active[d] + Max(1, spawn_count[d]) - 1)

\* max_active = 1, spawn_count = 2: one batch took the count to 2
C2_Witness ==
  /\ max_active["A"] = 1
  /\ spawn_count["A"] = 2
  /\ Len(active_items["A"]) = 2
  /\ \E t \in Threads : call[t].outcome = "done"

\* C3: a spawn call made while the catalog is empty returns at the first
\* check: it does not reach the capacity check, does not query the current
\* scene, attempts no unit and registers nothing.
C3_EmptyCatalogSpawnsNothing ==
  \A t \in Threads :
    (/\ InSpawnCall(t)
     /\ th[t].pc \notin {"idle", "ds_empty"}
     /\ Len(file_list[th[t].data]) = 0) =>
      /\ call[t].outcome = "empty"
      /\ th[t].pc \in {"ds_ret", "vs_ret"}
      /\ call[t].seen = -1
      /\ ~call[t].scene_q
      /\ call[t].attempted = 0
      /\ call[t].succeeded = 0
      /\ call[t].subs = 0
      /\ scene_refs = 0

\* a call returned on the empty catalog although the cap would have let it spawn
C3_Witness ==
  \E t \in Threads :
    /\ call[t].outcome = "empty"
    /\ file_list["A"] = <<>>
    /\ max_active["A"] > 0
    /\ active_items["A"] = <<>>
    /\ s_uid = 0

\* C4: a spawn call that passed the three checks with active count c, in
\* which every host call succeeded and during which no completion removed
\* an item, ends with active count c + max(1, spawn_count) and has attached
\* max(1, spawn_count) subscriptions if hide_on_end is set, none otherwise.
C4_FullBatch ==
  \A t \in Threads :
    (InSpawnCall(t) /\ call[t].outcome = "done" /\ call[t].failed = 0) =>
      LET d == th[t].data
          n == Max(1, spawn_count[d])
      IN  /\ call[t].succeeded = n
          /\ call[t].subs = IF hide_on_end[d] THEN n ELSE 0
          /\ (call[t].erased = 0 => Len(active_items[d]) = call[t].seen + n)

\* 0 active, spawn_count = 2, hide_on_end: two items, two subscriptions
C4_Witness ==
  \E t \in Threads :
    /\ call[t].outcome = "done"
    /\ call[t].failed = 0
    /\ call[t].seen = 0
    /\ spawn_count["A"] = 2
    /\ hide_on_end["A"]
    /\ Len(active_items["A"]) = 2
    /\ call[t].subs = 2
    /\ Cardinality({u \in Uids : ctx[u].st = "connected"}) = 2

\* C5: in a batch, a unit whose source or scene item the host fails to
\* create registers nothing and attaches nothing; the loop attempts every
\* unit all the same, and the active count grows by the number of units
\* that succeeded.
C5_PartialFailure ==
  /\ \A t \in Threads :
       (InSpawnCall(t) /\ call[t].outcome = "done") =>
         LET d == th[t].data
         IN  /\ call[t].attempted = Max(1, spawn_count[d])
             /\ call[t].attempted = call[t].succeeded + call[t].failed
             /\ call[t].subs <= call[t].succeeded
             /\ (call[t].erased = 0 =>
                   Len(active_items[d]) = call[t].seen + call[t].succeeded)
  /\ \A u \in Uids :
       \* a unit the host refused has no scene item, no entry, no hide_ctx
       (u <= s_uid /\ u \notin scene_items /\ remove_calls[u] = 0
        /\ \A t \in Threads : th[t].uid # u) =>
         /\ ctx[u].st = "none"
         /\ \A d \in Instances : u \notin Range(active_items[d])
         /\ media_refs[u] = 0

\* a batch of two in which the first unit failed and the second succeeded
C5_Witness ==
  \E t \in Threads :
    /\ call[t].outcome = "done"
    /\ call[t].attempted = 2
    /\ call[t].failed = 1
    /\ call[t].succeeded = 1
    /\ call[t].seen = 0
    /\ active_items["A"] = <<2>>
    /\ 1 \notin scene_items


\* C6: on_media_ended first takes its item out of the active list, under
\* the mutex, and only then has the host remove the scene item.  The erase
\* step removes exactly that item (the count drops by one, every other item
\* keeps its place) while the item is still in the scene; the removal step
\* leaves the list alone; and the item is never in the list again.
C6_CompletionUnregistersThenRemoves ==
  /\ [][\A u \in Uids :
          LET d == ctx[u].data
          IN  /\ (ctx[u].st = "locked" /\ ctx'[u].st = "unlinked") =>
                   /\ u \in Range(active_items[d])
                   /\ active_items'[d] = SelectSeq(active_items[d], LAMBDA x : x # u)
                   /\ Len(active_items'[d]) = Len(active_items[d]) - 1
                   /\ u \in scene_items /\ u \in scene_items'
                   /\ remove_calls'[u] = 0
              /\ (ctx[u].st = "unlinked" /\ ctx'[u].st = "freed") =>
                   /\ u \notin Range(active_items[d])
                   /\ active_items' = active_items
                   /\ u \in scene_items /\ u \notin scene_items'
                   /\ remove_calls'[u] = 1
      ]_vars
  /\ [](\A u \in Uids :
          ctx[u].st \in {"unlinked", "freed"} => u \notin Range(active_items[ctx[u].data]))

\* a completion has run to its end for one item while another is registered
C6_Witness ==
  \E u, v \in Uids :
    /\ u # v
    /\ ctx[u].st = "freed"
    /\ u \notin scene_items
    /\ active_items["A"] = <<v>>
    /\ v \in scene_items

\* C7 as stated: a second delivery of media_ended for the same hide_ctx is a
\* no-op: it changes neither the active list nor the host's scene items and
\* references, and it does not read the freed hide_ctx.
C7_SecondDeliveryIsNoOp ==
  [][\A u \in Uids :
       (ctx[u].st = "freed" /\ ctx'[u].st # "freed") =>
         UNCHANGED <<active_items, scene_items, remove_calls, media_refs, ub>>
    ]_vars

\* C8: erasing an item that is not in the active list leaves the list as it
\* is, so erasing the same item a second time gives the list the first
\* erase gave; the first erase removes the item and nothing else.
C8_EraseIdempotent ==
  LET t == th["t1"]
  IN  /\ t.pc = "er_once" =>
           /\ t.uid \notin Range(active_items["A"])
           /\ \A x \in Range(t.tmp) : x # t.uid => x \in Range(active_items["A"])
           /\ (t.uid \notin Range(t.tmp) => active_items["A"] = t.tmp)
      /\ t.pc = "er_twice" => active_items["A"] = t.tmp

\* an item that was in the list has been erased twice, others remain
C8_Witness ==
  /\ th["t1"].pc = "er_twice"
  /\ th["t1"].uid \in scene_items
  /\ Len(active_items["A"]) = 2

\* the items whose registration has completed and whose completion callback
\* has not erased them: the host made the scene item, no thread is still
\* between obs_scene_add and the end of push_back for it, and its hide_ctx,
\* if any, has not passed the erase
ExpectedActive ==
  {u \in Uids :
     /\ u \in scene_items \/ remove_calls[u] > 0
     /\ \A t \in Threads : ~(th[t].uid = u /\ th[t].pc \in {"so_push", "so_push_w"})
     /\ ctx[u].st \notin {"unlinked", "freed"}}

\* a thread or callback is between taking and releasing active_mutex of d
InCritical(d) ==
  {ThOwner(t) : t \in {x \in Threads : th[x].pc = "so_push_w" /\ th[x].data = d}}
    \cup {CbOwner(u) : u \in {x \in Uids : ctx[x].st = "locked" /\ ctx[x].data = d}}

\* C9: every access to the active list is made by the holder of
\* active_mutex: whoever is inside push_back or the erase owns the mutex and
\* still sees the list it read, the size reads of do_spawn and
\* vendor_spawn_cb and every write happen while nobody else owns it; so
\* under every interleaving of two spawning threads and the completion
\* callbacks the active list holds exactly the items registered and not yet
\* erased, each once.
C9_MutexKeepsListExact ==
  /\ [](\A d \in alive :
          /\ InCritical(d) = IF active_mutex[d] = FreeOwner THEN {} ELSE {active_mutex[d]}
          /\ \A t \in Threads :
               (th[t].pc = "so_push_w" /\ th[t].data = d) => th[t].tmp = active_items[d]
          /\ \A u \in Uids :
               (ctx[u].st = "locked" /\ ctx[u].data = d) => ctx[u].tmp = active_items[d]
          /\ NoDup(active_items[d])
          /\ Range(active_items[d]) = ExpectedActive)
  /\ [][/\ \A t \in Threads :
            (th[t].pc \in {"ds_cap", "ds_ret"} /\ th'[t].pc \notin {th[t].pc, "idle"}) =>
              /\ active_mutex[th[t].data] = FreeOwner
              /\ th[t].pc = "ds_cap" => call'[t].seen = Len(active_items[th[t].data])
              /\ th[t].pc = "ds_ret" => call'[t].reported = Len(active_items[th[t].data])
         /\ \A d \in alive :
            active_items'[d] # active_items[d] =>
              (active_mutex[d] # FreeOwner /\ active_mutex'[d] = FreeOwner)
      ]_vars

\* one thread is inside push_back while the other thread and a completion
\* callback wait for the mutex
C9_Witness ==
  \E t1, t2 \in Threads, u \in Uids :
    /\ t1 # t2
    /\ th[t1].pc = "so_push_w"
    /\ th[t2].pc = "so_push"
    /\ ctx[u].st = "connected"
    /\ u \in Range(active_items["A"])

\* C10: an item leaves the active list only in the erase step of its own
\* completion callback: no spawn, reload, settings update or other item's
\* completion removes it, so an item whose completion is never delivered
\* stays in the list and keeps counting against max_active.
C10_OnlyOwnCompletionRemoves ==
  [][\A d \in Instances, x \in Uids :
       (x \in Range(active_items[d]) /\ x \notin Range(active_items'[d])) =>
         (ctx[x].st = "locked" /\ ctx'[x].st = "unlinked" /\ ctx[x].data = d)
    ]_vars

\* an item spawned without a subscription is still registered after another
\* item's completion ran, the settings were updated (hide_on_end is now set)
\* and the catalog was reloaded
C10_Witness ==
  \E x, y \in Uids :
    /\ x # y
    /\ ctx[x].st = "none"
    /\ x \in Range(active_items["A"])
    /\ ctx[y].st = "freed"
    /\ hide_on_end["A"]
    /\ th["t1"].pc = "vr_ret"

\* ---------------------------------------------------------------------
\* Catalog claims
\* ---------------------------------------------------------------------
\* the allow-list of the specification, and the letters it is made of in
\* both cases
AllowedExtensions ==
  { <<".", "m", "p", "4">>, <<".", "m", "k", "v">>, <<".", "a", "v", "i">>,
    <<".", "m", "o", "v">>, <<".", "w", "e", "b", "m">>, <<".", "f", "l", "v">>,
    <<".", "j", "p", "g">>, <<".", "j", "p", "e", "g">>, <<".", "p", "n", "g">>,
    <<".", "g", "i", "f">> }

UpperLower ==
  { <<"M", "m">>, <<"P", "p">>, <<"K", "k">>, <<"V", "v">>, <<"A", "a">>,
    <<"I", "i">>, <<"O", "o">>, <<"W", "w">>, <<"E", "e">>, <<"B", "b">>,
    <<"F", "f">>, <<"L", "l">>, <<"J", "j">>, <<"G", "g">>, <<"N", "n">> }

\* word is ext up to the case of its letters
SameUpToCase(word, ext) ==
  /\ Len(word) = Len(ext)
  /\ \A k \in 1..Len(ext) : word[k] = ext[k] \/ <<word[k], ext[k]>> \in UpperLower

\* the entry is a file whose name, from its last '.', is an allowed extension
EligibleEntry(ent) ==
  /\ ~ent.directory
  /\ \E k \in 1..Len(ent.d_name) :
       /\ ent.d_name[k] = "."
       /\ \A j \in (k + 1)..Len(ent.d_name) : ent.d_name[j] # "."
       /\ \E ext \in AllowedExtensions :
            SameUpToCase(SubSeq(ent.d_name, k, Len(ent.d_name)), ext)

\* the catalog a refresh of folder f must produce from the disk
ExpectedCatalog(disk, f) ==
  IF f = <<>> \/ ~disk[f].ok THEN <<>>
  ELSE LET ok == SelectSeq(disk[f].ents, EligibleEntry)
       IN  [k \in 1..Len(ok) |-> f \o <<"/">> \o ok[k].d_name]

\* a step in which update_file_list ran for instance d
Refreshes(d) ==
  \/ /\ th["t1"].pc = "idle" /\ th'["t1"].pc = "vr_ret" /\ g_data = d
  \/ /\ th["t1"].pc = "idle" /\ th'["t1"].pc = "su_ret" /\ th'["t1"].data = d
     /\ folder'[d] # folder[d]

\* C11: a refresh puts a directory entry in the catalog iff the entry is
\* not a directory and the text from its last '.' to the end, lower-cased,
\* is one of the ten allowed extensions; entries without '.', with another
\* extension, and directories are left out.  The folder a.mp4, b.txt, c.png
\* yields exactly a.mp4 and c.png.
C11_CatalogEligibility ==
  /\ [][\A d \in alive : Refreshes(d) /\ fs[folder'[d]].ok =>
          /\ \A k \in 1..Len(fs[folder'[d]].ents) :
               LET ent == fs[folder'[d]].ents[k]
               IN  (folder'[d] \o <<"/">> \o ent.d_name \in Range(file_list'[d]))
                     <=> EligibleEntry(ent)
          /\ \A f \in Range(file_list'[d]) :
               \E k \in 1..Len(fs[folder'[d]].ents) :
                 f = folder'[d] \o <<"/">> \o fs[folder'[d]].ents[k].d_name
     ]_vars
  /\ update_file_list(FsInit[FolderA], FolderA)
       = << FolderA \o <<"/", "a", ".", "m", "p", "4">>,
            FolderA \o <<"/", "c", ".", "p", "n", "g">> >>

C11_Witness ==
  /\ th["t1"].pc = "vr_ret"
  /\ folder["A"] = FolderB
  /\ fs[FolderB].ents =
       << [d_name |-> <<"A", ".", "M", "P", "4">>, directory |-> FALSE],
          [d_name |-> <<".", "g", "i", "f">>, directory |-> TRUE] >>
  /\ file_list["A"] = << FolderB \o <<"/", "A", ".", "M", "P", "4">> >>

\* C12: a catalog refresh replaces the catalog wholesale: afterwards the
\* catalog is exactly the list of eligible files of the folder now
\* configured, so it holds no entry of an earlier refresh; it is empty when
\* the folder name is empty or the folder cannot be opened; and the
\* reload_files response carries status "ok" and the new catalog size.
C12_RefreshReplacesCatalog ==
  [][\A d \in alive : Refreshes(d) =>
       /\ file_list'[d] = ExpectedCatalog(fs, folder'[d])
       /\ \A f \in Range(file_list[d]) :
            f \in Range(file_list'[d]) =>
              \E k \in 1..Len(fs[folder'[d]].ents) :
                /\ f = folder'[d] \o <<"/">> \o fs[folder'[d]].ents[k].d_name
                /\ ~fs[folder'[d]].ents[k].directory
       /\ (folder'[d] = <<>> \/ ~fs[folder'[d]].ok) => file_list'[d] = <<>>
       /\ th'["t1"].pc = "vr_ret" =>
            /\ call'["t1"].status = "ok"
            /\ call'["t1"].reported = Len(file_list'[d])
    ]_vars

\* a reload answered "ok" with file_count 0 because the folder cannot be opened
C12_Witness ==
  /\ th["t1"].pc = "vr_ret"
  /\ folder["A"] = FolderX
  /\ ~fs[FolderX].ok
  /\ call["t1"].status = "ok"
  /\ call["t1"].reported = 0
  /\ file_list["A"] = <<>>

\* ---------------------------------------------------------------------
\* Vendor request claims
\* ---------------------------------------------------------------------
\* C13: a vendor 'spawn' request received while an instance is registered
\* in g_data runs one spawn call on it and answers status "ok" with
\* active_count = the size of the active list after the call, also when the
\* spawn was skipped (empty catalog, at capacity, no scene); received while
\* g_data is null it answers status "error", runs no spawn and changes no
\* state.
C13_VendorSpawnAnswer ==
  /\ [](\A t \in Threads :
          (th[t].entry = "vendor_spawn" /\ th[t].pc = "vs_ret") =>
             \/ /\ call[t].status = "ok"
                /\ call[t].outcome \in {"empty", "cap", "noscene", "done"}
                /\ th[t].data \in Instances
             \/ /\ call[t].status = "error"
                /\ call[t].outcome = "none"
                /\ call[t].attempted = 0
                /\ ~call[t].scene_q
                /\ th[t].data = NULL)
  /\ [][\A t \in Threads :
          /\ (th[t].pc = "idle" /\ th'[t].entry = "vendor_spawn") =>
               IF g_data = NULL
               THEN /\ th'[t].pc = "vs_ret"
                    /\ call'[t].status = "error"
                    /\ UNCHANGED <<globVars, cfgVars, fs, file_list, active_mutex,
                                   active_items, ctx, hostVars>>
               ELSE /\ th'[t].pc = "ds_empty"
                    /\ th'[t].data = g_data
                    /\ g_data \in alive
          /\ (th[t].entry = "vendor_spawn" /\ th[t].pc = "ds_ret"
                 /\ th'[t].pc = "vs_ret") =>
               /\ call'[t].status = "ok"
               /\ call'[t].reported = Len(active_items'[th[t].data])
               /\ call'[t].outcome = call[t].outcome
     ]_vars

\* a request answered "ok" with the unchanged count after a spawn skipped at
\* the cap
C13_Witness ==
  /\ th["t1"].entry = "vendor_spawn"
  /\ th["t1"].pc = "vs_ret"
  /\ call["t1"].status = "ok"
  /\ call["t1"].outcome = "cap"
  /\ call["t1"].reported = Len(active_items[th["t1"].data])
  /\ call["t1"].reported >= 1

\* what a finished do_spawn call has done, as a function of the catalog,
\* the cap, the scene and the host results only
SpawnEffect(t) ==
  LET d == th[t].data
  IN  /\ call[t].outcome = "empty" =>
           /\ file_list[d] = <<>>
           /\ call[t].seen = -1 /\ ~call[t].scene_q /\ call[t].attempted = 0
      /\ call[t].outcome = "cap" =>
           /\ file_list[d] # <<>>
           /\ call[t].seen >= max_active[d]
           /\ ~call[t].scene_q /\ call[t].attempted = 0
      /\ call[t].outcome = "noscene" =>
           /\ file_list[d] # <<>>
           /\ call[t].seen < max_active[d]
           /\ call[t].scene_q /\ call[t].attempted = 0
      /\ call[t].outcome = "done" =>
           /\ file_list[d] # <<>>
           /\ call[t].seen < max_active[d]
           /\ call[t].attempted = Max(1, spawn_count[d])
           /\ call[t].succeeded + call[t].failed = call[t].attempted
           /\ call[t].subs = IF hide_on_end[d] THEN call[t].succeeded ELSE 0
      /\ call[t].seen >= 0 =>
           Len(active_items[d]) = call[t].seen + call[t].succeeded - call[t].erased
      /\ scene_refs = 0

\* C14: when obs-websocket is absent (vendor registration returns null)
\* obs_module_post_load registers no request, changes nothing else and
\* returns; afterwards no vendor request can arrive, an activation of the
\* source can still start, and every activation, with or without the
\* channel, has the effect on the catalog, the active list and the host
\* that do_spawn has.
C14_NoChannelActivationWorks ==
  /\ [](/\ ((post_loaded /\ g_vendor = NULL) => requests = {})
        /\ ((~post_loaded) => (alive = {} /\ requests = {}))
        /\ ((post_loaded /\ g_vendor = NULL /\ "A" \in alive
              /\ th["t1"].pc = "idle" /\ UidsLeft) =>
             (ENABLED SourceActivate("t1", "A") /\ ~ENABLED VendorSpawn("t1")
                /\ ~ENABLED VendorReload("t1")))
        /\ ((th["t1"].entry = "activate" /\ th["t1"].pc = "ds_ret") =>
             SpawnEffect("t1")))
  /\ [][/\ ((~post_loaded /\ post_loaded' /\ g_vendor' = NULL) =>
            (/\ requests' = {}
             /\ UNCHANGED <<g_data, s_uid, alive, cfgVars, fs, file_list, active_mutex,
                            active_items, ctx, hostVars, th, call>>))
         /\ (th["t1"].entry = "activate" =>
            UNCHANGED <<file_list, post_loaded, g_vendor, requests>>)
      ]_vars

\* without the channel, an activation spawned a full batch
C14_Witness ==
  /\ post_loaded
  /\ g_vendor = NULL
  /\ requests = {}
  /\ th["t1"].entry = "activate"
  /\ call["t1"].outcome = "done"
  /\ call["t1"].succeeded = 2
  /\ Len(active_items["A"]) = 2
  /\ Cardinality(scene_items) = 2

\* ---------------------------------------------------------------------
\* Transform claims
\* ---------------------------------------------------------------------
\* the items instance d has spawned and registered
Spawned(d) == Range(active_items[d])

\* C15: for every min_x, max_x, min_y, max_y and canvas size, the position
\* the random transform gives an item lies in the resolved rectangle: a
\* minimum edge <= 0 resolves to 0, a maximum edge <= 0 to the canvas
\* extent, and an axis whose resolved minimum exceeds its resolved maximum
\* is swapped (min_x = 500, max_x = 100 draws from [100, 500]).  An item is
\* positioned iff the random transform is enabled.
C15_PositionInResolvedRect ==
  \A d \in alive : \A u \in Spawned(d) :
    LET c   == xform[d]
        rx0 == IF c.min_x <= 0 THEN 0 ELSE c.min_x
        rx1 == IF c.max_x <= 0 THEN canvas.w ELSE c.max_x
        ry0 == IF c.min_y <= 0 THEN 0 ELSE c.min_y
        ry1 == IF c.max_y <= 0 THEN canvas.h ELSE c.max_y
        p   == item_xf[u].pos
    IN  /\ ("pos" \in item_xf[u].calls) <=> do_random_transform[d]
        /\ "pos" \in item_xf[u].calls =>
             /\ IF rx0 <= rx1 THEN rx0 <= p[1] /\ p[1] <= rx1
                              ELSE rx1 <= p[1] /\ p[1] <= rx0
             /\ IF ry0 <= ry1 THEN ry0 <= p[2] /\ p[2] <= ry1
                              ELSE ry1 <= p[2] /\ p[2] <= ry0
             /\ (c.min_x = 500 /\ c.max_x = 100) => (100 <= p[1] /\ p[1] <= 500)

\* min_x = 500, max_x = 100: an item was placed at x = 100, and on the y
\* axis max_y <= 0 let it reach the canvas height
C15_Witness ==
  \E u \in Spawned("A") :
    /\ xform["A"].min_x = 500 /\ xform["A"].max_x = 100
    /\ xform["A"].min_y = 0 /\ xform["A"].max_y = -1
    /\ "pos" \in item_xf[u].calls
    /\ item_xf[u].pos = <<100, canvas.h>>
    /\ canvas.h > 0

\* C16: whenever preserve_aspect is true the scale given to a spawned item
\* has scaleY = scaleX; only with preserve_aspect false does scaleY come
\* from a draw of its own, and both lie in the scale range.
C16_PreserveAspectEqualScale ==
  \A d \in alive : \A u \in Spawned(d) :
    "scale" \in item_xf[u].calls =>
      LET c  == xform[d]
          lo == IF c.min_scale <= c.max_scale THEN c.min_scale ELSE c.max_scale
          hi == IF c.min_scale <= c.max_scale THEN c.max_scale ELSE c.min_scale
          sc == item_xf[u].scale
      IN  /\ c.preserve_aspect => sc[2] = sc[1]
          /\ lo <= sc[1] /\ sc[1] <= hi
          /\ lo <= sc[2] /\ sc[2] <= hi

\* preserve_aspect with a scale range of more than one value: both axes got
\* the upper end
C16_Witness ==
  \E u \in Spawned("A") :
    /\ xform["A"].preserve_aspect
    /\ xform["A"].min_scale # xform["A"].max_scale
    /\ "scale" \in item_xf[u].calls
    /\ item_xf[u].scale = <<150, 150>>

\* C17: whenever disable_rot is true spawning sets no rotation, so the
\* item keeps the host default 0 for every min_rot / max_rot; when
\* disable_rot is false the transform sets a rotation between
\* min(min_rot, max_rot) and max(min_rot, max_rot).
C17_RotationDisabledOrInRange ==
  \A d \in alive : \A u \in Spawned(d) :
    LET c  == xform[d]
        lo == IF c.min_rot <= c.max_rot THEN c.min_rot ELSE c.max_rot
        hi == IF c.min_rot <= c.max_rot THEN c.max_rot ELSE c.min_rot
    IN  /\ c.disable_rot => (item_xf[u].rot = 0 /\ "rot" \notin item_xf[u].calls)
        /\ (~c.disable_rot /\ do_random_transform[d]) =>
             /\ "rot" \in item_xf[u].calls
             /\ lo <= item_xf[u].rot /\ item_xf[u].rot <= hi
        /\ ~do_random_transform[d] => item_xf[u].calls = {}

\* disable_rot with min_rot = 90 > max_rot = 0: the item was moved and
\* scaled but its rotation is still 0 and was never set
C17_Witness ==
  \E u \in Spawned("A") :
    /\ xform["A"].disable_rot
    /\ xform["A"].min_rot = 90
    /\ item_xf[u].calls = {"pos", "scale"}
    /\ item_xf[u].rot = 0

\* ---------------------------------------------------------------------
\* Further spawn claims
\* ---------------------------------------------------------------------
\* C18: a spawn call made while the host has no current scene returns
\* before the unit loop: it creates no media source, registers no item,
\* attaches no subscription, holds no scene reference, and leaves the
\* active list and the catalog as they were.
C18_NoSceneSpawnsNothing ==
  /\ [](\A t \in Threads :
          (InSpawnCall(t) /\ call[t].scene_q /\ call[t].scene = NULL) =>
            /\ call[t].outcome = "noscene"
            /\ th[t].pc \in {"ds_ret", "vs_ret"}
            /\ call[t].attempted = 0
            /\ call[t].succeeded = 0
            /\ call[t].subs = 0
            /\ scene_refs = 0
            /\ (call[t].erased = 0 => Len(active_items[th[t].data]) = call[t].seen))
  /\ [][\A t \in Threads :
          (th[t].pc = "ds_scene" /\ call'[t].scene = NULL) =>
            /\ th'[t].pc = "ds_ret"
            /\ UNCHANGED <<s_uid, file_list, active_items, ctx, hostVars>>
     ]_vars

\* with one item active below the cap, a call found no scene and returned
C18_Witness ==
  \E t \in Threads :
    /\ call[t].outcome = "noscene"
    /\ call[t].scene = NULL
    /\ call[t].seen = 1
    /\ Len(active_items["A"]) = 1
    /\ file_list["A"] # <<>>
    /\ Cardinality(scene_items) = 1

\* C19: the catalog changes only in a reload (the vendor request
\* reload_files or the reload button) or in a settings update whose folder
\* differs from the configured one; a settings update with the same folder
\* leaves the catalog as it is even if the directory changed on disk, and
\* no step of a spawn call modifies the catalog.
C19_CatalogChangesOnlyOnReload ==
  [][/\ \A d \in alive :
          file_list'[d] # file_list[d] =>
            \E t \in Threads :
              /\ th[t].pc = "idle"
              /\ th'[t].data = d
              /\ \/ th'[t].entry \in {"vendor_reload", "btn_reload"}
                 \/ th'[t].entry = "update" /\ folder'[d] # folder[d]
     /\ \A t \in Threads :
          (th[t].pc = "idle" /\ th'[t].entry = "update"
             /\ folder'[th'[t].data] = folder[th'[t].data]) =>
            file_list' = file_list
     /\ \A t \in Threads :
          (th'[t].entry \in {"activate", "vendor_spawn"} /\ th'[t] # th[t]) =>
            file_list' = file_list
    ]_vars

\* a settings update kept the folder while c.png had been deleted from it:
\* the catalog still lists c.png
C19_Witness ==
  /\ th["t1"].pc = "su_ret"
  /\ folder["A"] = FolderA
  /\ fs = FsAlt
  /\ file_list["A"] = << FolderA \o <<"/", "a", ".", "m", "p", "4">>,
                         FolderA \o <<"/", "c", ".", "p", "n", "g">> >>

\* the thread is in the unit loop of do_spawn or about to release the scene
InUnitLoop(t) == th[t].pc \in {"so_create", "so_push", "so_push_w", "ds_release"}

\* C20: a spawn call that passed the empty-catalog, capacity and scene
\* checks runs max(1, spawn_count) unit attempts (one also for spawn_count
\* 0 or negative): the loop bound is fixed at max(1, spawn_count) when the
\* loop starts, no failing unit and no cap reached mid-batch ends it early,
\* and the call always goes on to release the scene reference and return.
C20_BatchRunsToCompletion ==
  /\ [](InUnitLoop("t1") =>
          /\ th["t1"].count = Max(1, spawn_count[th["t1"].data])
          /\ call["t1"].attempted = th["t1"].i + (IF th["t1"].pc \in {"so_push", "so_push_w"}
                                                  THEN 1 ELSE 0)
          /\ call["t1"].attempted <= th["t1"].count
          /\ ((th["t1"].pc = "ds_release") <=> (th["t1"].i = th["t1"].count))
          /\ scene_refs = 1)
  /\ []((InSpawnCall("t1") /\ call["t1"].outcome = "done") =>
          /\ call["t1"].attempted = Max(1, spawn_count[th["t1"].data])
          /\ scene_refs = 0)
  /\ (InUnitLoop("t1") ~>
        (th["t1"].pc = "ds_ret" /\ call["t1"].outcome = "done" /\ scene_refs = 0))

\* spawn_count = -1 and max_active = 1: the call made its one attempt,
\* registered the item and returned with the scene released
C20_Witness ==
  /\ spawn_count["A"] = -1
  /\ max_active["A"] = 1
  /\ th["t1"].pc = "ds_ret"
  /\ call["t1"].outcome = "done"
  /\ call["t1"].attempted = 1
  /\ call["t1"].succeeded = 1
  /\ scene_refs = 0

\* the identifiers a unit attempt has handed to the host or to the plugin
UidsInUse ==
  UNION {Range(active_items[d]) : d \in Instances}
    \cup scene_items
    \cup {u \in Uids : ctx[u].st # "none"}
    \cup {th[t].uid : t \in {x \in Threads : th[x].uid # 0}}

\* C21: every unit attempt takes its identifier from the one process-wide
\* counter, and the identifier is strictly larger than every identifier
\* taken before: an attempt (failed ones included) moves the counter up by
\* exactly one and takes the new value, nothing else moves the counter, so
\* no two attempts of one batch, of different batches or of concurrently
\* running spawn calls hold the same identifier.
C21_UniqueIncreasingUid ==
  /\ [][/\ s_uid' >= s_uid
        /\ \A t \in Threads :
             (th[t].pc = "so_create" /\ th'[t] # th[t]) =>
               /\ s_uid' = s_uid + 1
               /\ s_uid' \notin UidsInUse
               /\ call'[t].attempted = call[t].attempted + 1
               /\ th'[t].uid \in {0, s_uid'}
               /\ \A t2 \in Threads \ {t} : th'[t2] = th[t2]
        /\ (s_uid' # s_uid) =>
             \E t \in Threads : th[t].pc = "so_create" /\ th'[t] # th[t]]_vars
  /\ [](/\ \A u \in UidsInUse : 1 <= u /\ u <= s_uid
        /\ \A t1, t2 \in Threads :
             (t1 # t2 /\ th[t1].uid # 0) => th[t1].uid # th[t2].uid
        /\ \A d \in Instances : NoDup(active_items[d]))

\* two spawn calls run concurrently: the first attempt of one failed and
\* consumed identifier 1, its second attempt holds 2 while the other
\* thread's attempt holds 3
C21_Witness ==
  /\ s_uid = 3
  /\ th["t1"].pc = "so_push" /\ th["t1"].uid = 2
  /\ call["t1"].failed = 1 /\ call["t1"].attempted = 2
  /\ th["t2"].pc = "so_push" /\ th["t2"].uid = 3
  /\ 1 \notin scene_items

\* C22: in the canvas-relative transform every spawned item lies fully
\* inside the canvas: 0 <= x, 0 <= y, x + item_width <= canvas_width and
\* y + item_height <= canvas_height, for every scale range, canvas size
\* and natural size of the source.
C22_ItemInsideCanvas ==
  \A u \in transformed :
    /\ 0 <= item_xf[u].pos[1]
    /\ 0 <= item_xf[u].pos[2]
    /\ item_xf[u].pos[1] + item_xf[u].size[1] <= canvas.w
    /\ item_xf[u].pos[2] + item_xf[u].size[2] <= canvas.h

\* C23: every index a spawn call uses to read the catalog is a valid index
\* of the catalog at the moment of the read, also when a reload_files
\* request or a folder-changing settings update rebuilds the catalog on
\* another thread while the unit loop is running.
C23_CatalogIndexValid == "oob_read" \notin ub

\* C24: after a plugin instance is destroyed no completion callback reads
\* or writes that instance's state: a media_ended signal delivered after
\* source_destroy for an item spawned with remove-on-end does not touch
\* the destroyed instance's mutex or active list.
C24_NoCallbackOnDestroyed == "data_uaf" \notin ub

\* C25: the bound active count <= max_active + max(1, spawn_count) - 1
\* also holds when two spawn calls run concurrently on the same instance
\* (a source activation on one thread, a vendor "spawn" request on the
\* other), the capacity check and the registrations being separate
\* critical sections.
C25_ConcurrentOvershootBound ==
  \A d \in Instances :
    (d \in alive /\ max_active[d] >= 1) =>
      Len(active_items[d]) + 1 <= max_active[d] + Max(1, spawn_count[d])

\* the registered items of d that have no completion subscription
Unsubscribed(d) == {u \in Range(active_items[d]) : ctx[u].st = "none"}

\* what C26 says apart from "forever": a unit that succeeds registers its
\* item whether or not remove-on-end is set and subscribes exactly if
\* remove-on-end is set at that moment; nothing else creates a
\* subscription; an item registered without one never leaves the active
\* list; a capacity check that finds max_active or more such items skips
\* the call.
UnsubscribedItemsStay ==
  /\ [][\A t \in Threads :
          (th[t].pc = "so_push_w" /\ th'[t] # th[t]) =>
            /\ th[t].uid \in Range(active_items'[th[t].data])
            /\ (ctx'[th[t].uid].st = "connected") <=> hide_on_end[th[t].data]]_vars
  /\ [][\A u \in Uids :
          (ctx[u].st = "none" /\ ctx'[u].st # "none") =>
            \E t \in Threads : /\ th[t].pc = "so_push_w"
                                /\ th[t].uid = u
                                /\ hide_on_end[th[t].data]]_vars
  /\ [][\A d \in Instances : Unsubscribed(d) \subseteq Unsubscribed(d)']_vars
  /\ [][\A t \in Threads :
          (/\ th[t].pc = "ds_cap" /\ th'[t] # th[t]
           /\ Cardinality(Unsubscribed(th[t].data)) >= max_active[th[t].data]) =>
            /\ call'[t].outcome = "cap"
            /\ th'[t].pc = "ds_ret"
            /\ active_items' = active_items]_vars

\* C26 as stated: items are registered whether or not remove-on-end is
\* set, only items spawned while it was set get a completion subscription;
\* so items spawned without it never leave, and once their number has
\* reached max_active it stays at or above max_active forever (every later
\* spawn call is skipped), whatever the settings become.
C26_SkippedForever ==
  /\ UnsubscribedItemsStay
  /\ [][\A d \in Instances :
          Cardinality(Unsubscribed(d)) >= max_active[d] =>
            Cardinality(Unsubscribed(d)') >= max_active'[d]]_vars

\* C26 amended: as above, but the spawn calls are skipped for as long as
\* max_active is not raised: the number of items without a subscription
\* stays at or above max_active across every step that does not raise
\* max_active (switching remove-on-end on included).
C26_SkippedUntilCapRaised ==
  /\ UnsubscribedItemsStay
  /\ [][\A d \in Instances :
          (/\ Cardinality(Unsubscribed(d)) >= max_active[d]
           /\ max_active'[d] <= max_active[d]) =>
            Cardinality(Unsubscribed(d)') >= max_active'[d]]_vars

\* max_active = 1: item 1 was spawned without remove-on-end, remove-on-end
\* was switched on afterwards, and a later spawn call was skipped
C26_Witness ==
  /\ max_active["A"] = 1
  /\ hide_on_end["A"]
  /\ Unsubscribed("A") = {1}
  /\ th["t1"].data = "A"
  /\ call["t1"].outcome = "cap"
  /\ call["t1"].seen = 1

\* C27: a vendor request never operates on a destroyed plugin instance:
\* under any interleaving of source_create, source_destroy and vendor
\* "spawn" / "reload_files" callbacks the global target is null or a live
\* instance whenever it is used, and the instance a callback passes to
\* do_spawn or update_file_list is alive for the whole call.
C27_VendorTargetAlive ==
  /\ g_data \in alive \cup {NULL}
  /\ \A t \in Threads :
       (th[t].entry \in {"vendor_spawn", "vendor_reload"} /\ UsesData(t)) =>
         th[t].data \in alive
  /\ ub \cap {"data_uaf", "null_deref"} = {}

\* C28: whenever at least one plugin instance is alive, a vendor "spawn"
\* or "reload_files" request is routed to a live instance and is not
\* answered with status "error", for every order of creating and
\* destroying several instances.
C28_RoutedWhileAnyAlive ==
  /\ (alive # {}) => (g_data \in alive)
  /\ \A t \in Threads :
       (/\ th[t].entry \in {"vendor_spawn", "vendor_reload"}
        /\ th[t].pc \in {"vs_ret", "vr_ret"}
        /\ alive # {}) =>
         /\ call[t].status = "ok"
         /\ th[t].data \in alive

\* the mutex of d is held by thread t, by the callback of item u
HeldByThread(d, t) == active_mutex[d] = ThOwner(t)

HeldByCallback(d, u) == active_mutex[d] = CbOwner(u)

\* C29: no execution deadlocks on active_mutex.  The mutex is held only
\* inside the two vector operations (the push_back of spawn_one, the erase
\* of on_media_ended), never at a point where the thread or the callback
\* calls into the host (obs_source_create, obs_scene_add,
\* signal_handler_connect, obs_source_release, obs_sceneitem_remove), and
\* nobody waits for a second mutex while holding one; so a held mutex is
\* always released again, and a completion callback that waits for it
\* finds it free.
C29_NoDeadlockOnMutex ==
  /\ [](\A d \in Instances :
          /\ \A t \in Threads :
               HeldByThread(d, t) <=> (th[t].pc = "so_push_w" /\ th[t].data = d)
          /\ \A u \in Uids :
               HeldByCallback(d, u) <=> (ctx[u].st = "locked" /\ ctx[u].data = d)
          /\ active_mutex[d] # FreeOwner =>
               \/ \E t \in Threads : HeldByThread(d, t)
               \/ \E u \in Uids : HeldByCallback(d, u))
  /\ [](\A u \in Uids :
          (ctx[u].st = "connected" /\ active_mutex[ctx[u].data] = FreeOwner) =>
            ENABLED MediaEndedLock(u))
  /\ \A d \in Instances : (active_mutex[d] # FreeOwner) ~> (active_mutex[d] = FreeOwner)

\* a completion callback is due while a spawning thread holds the mutex
\* for its push_back
C29_Witness ==
  /\ HeldByThread("A", "t1")
  /\ ctx[1].st = "connected"
  /\ ctx[1].data = "A"
  /\ th["t2"].pc = "so_push"

\* the hide_ctx of item u exists: it holds the reference taken for the
\* completion callback
HasSubscription(u) == ctx[u].st \in {"connected", "locked", "unlinked"}

\* thread t is inside spawn_one with the media source of item u created
InSpawnOne(t, u) == th[t].pc \in {"so_push", "so_push_w"} /\ th[t].uid = u

\* C30: with each completion delivered at most once the plugin's
\* references on a spawned media source are balanced: inside spawn_one it
\* holds the creation reference; after spawn_one has returned it holds
\* exactly one reference if it attached a completion subscription and
\* none otherwise (none either when obs_source_create or obs_scene_add
\* failed); the completion callback releases that one reference; the
\* count is never negative.
C30_MediaRefsBalanced ==
  /\ [](\A u \in Uids :
          /\ media_refs[u] >= 0
          /\ media_refs[u] =
               IF (\E t \in Threads : InSpawnOne(t, u)) \/ HasSubscription(u)
               THEN 1 ELSE 0
          /\ ~((\E t \in Threads : InSpawnOne(t, u)) /\ HasSubscription(u)))
  /\ [][\A t \in Threads :
          /\ (th[t].pc = "so_create" /\ th'[t] # th[t] /\ th'[t].pc # "so_push") =>
               (media_refs'[s_uid'] = 0 /\ ctx'[s_uid'].st = "none")
          /\ (th[t].pc = "so_push_w" /\ th'[t] # th[t]) =>
               media_refs'[th[t].uid] = IF hide_on_end[th[t].data] THEN 1 ELSE 0]_vars
  /\ [][\A u \in Uids :
          (ctx[u].st = "unlinked" /\ ctx'[u].st = "freed") =>
            (media_refs[u] = 1 /\ media_refs'[u] = 0)]_vars

\* item 1 was spawned with a subscription and its completion callback has
\* run (no reference left); item 2 is registered and still subscribed (one
\* reference); the unit that took identifier 3 failed (no reference)
C30_Witness ==
  /\ ctx[1].st = "freed" /\ media_refs[1] = 0 /\ remove_calls[1] = 1
  /\ ctx[2].st = "connected" /\ media_refs[2] = 1
  /\ 2 \in Range(active_items["A"])
  /\ s_uid = 3 /\ media_refs[3] = 0 /\ 3 \notin scene_items
  /\ \A t \in Threads : th[t].uid = 0

====
